---- MODULE Spec2Model ----
(***************************************************************************)
(* Single Atom Image Analysis (SAIA): the directory watcher               *)
(* (directoryWatcher.py), the image handler (imageHandler.py) and the     *)
(* parts of the main window (main.py) that drive them.                    *)
(*                                                                         *)
(* The specifications of the module:                                      *)
(*   SpecDW   the file-arrival protocol: the camera program writing the   *)
(*            image file, Dexter rewriting the counter file, the observer *)
(*            threads running on_created, and the GUI thread running      *)
(*            reset_DW / closeEvent (SpecDW2: two watchers; SpecDW1: one  *)
(*            watcher, one image; SpecLive: SpecDW1 with the observer     *)
(*            thread scheduled fairly);                                    *)
(*   SpecSilent  the watcher in passive mode, from the import of          *)
(*            directoryWatcher on;                                         *)
(*   SpecUnit sync_dexter and wait_for_file called on their own;          *)
(*   SpecIH   one image_handler: process, reset_arrays, load_from_csv;    *)
(*   SpecHist one image_handler: histogram, hist_and_thresh,              *)
(*            search_fidelity;                                             *)
(*   SpecStats  histogram, hist_and_thresh, save_state, load_from_csv and *)
(*            reset_arrays on handlers that hold given records;           *)
(*   SpecIA   the image_handler of imageAnalyser.py: process and          *)
(*            load_from_csv;                                               *)
(*   SpecRead process on files that are written, missing or empty;        *)
(*   SpecPeaks  est_param on its own, its loop pass by pass;              *)
(*   SpecFid  get_fidelity on its own;                                     *)
(*   SpecROI  the region of interest: roi_text_edit, user_roi, process;   *)
(*   SpecGUI  the main window's threshold, signal wiring, multirun and    *)
(*            reset of the histogram.                                      *)
(***************************************************************************)
EXTENDS Integers, Sequences, FiniteSets, TLC

(***************************************************************************)
(* Bounds of the model.                                                    *)
(***************************************************************************)
\* images the camera program writes during a run
MaxImages == 3
\* dir_watcher instances the GUI creates during a run
MaxWatchers == 2
\* size of a completely written image file, in write chunks
Full == 1
\* largest file number Dexter writes to the sync file
MaxCtr == 1
\* images the camera program writes while two watchers are started
MaxImages2 == 1
\* empty reads of the sync file that are counted for one event
MaxEmptyReads == 1
\* image_handler.n, the number of slots the record arrays are created with and
\* grown by (10000 in the source).  For every n > 20, n % (n - 10) = 10, as
\* for n = 10000.
n == 21
\* images offered to image_handler.process
MaxFiles == 32
\* rows of a csv file given to image_handler.load_from_csv
MaxRows == 2
\* calls of image_handler.load_from_csv
MaxLoads == 1
\* images that arrive while the main window is watched
MaxGuiFiles == 5
\* user variables in the multirun list
MaxVars == 1
\* actions of the user on the main window
MaxClicks == 4
\* the threshold the user types, in counts
ThreshText == 50
\* reads of os.path.getsize a scripted file answers
MaxReads == 5
\* the sizes a scripted file reports, in bytes
Sizes == {100, 150}
\* the file numbers sync_dexter is called with
Dfns == 41..43
\* images processed before a histogram is made on its own
MaxHistFiles == 4
\* what the user may have typed as Min. Counts, Max. Counts and # Bins
BinTexts == {<<0, 120, 7>>}
\* what the user may have typed as Threshold, in counts: the edit's
\* QDoubleValidator (main.py line 409) takes any number
ThreshTexts == {ThreshText, -ThreshText}
\* the integrated counts of the images a handler holds when one of its
\* methods is called on its own
StatCounts ==
    {<<>>, <<30>>, <<30, 70>>, <<0, 30, 70, 100>>, <<50, 50, 50>>,
     <<10, 12, 11, 98, 101, 99, 13>>}
\* the longest occupancy array given to est_param on its own
MaxBins == 7
\* the highest occupancy of a bin of such an array
MaxOcc == 2
\* the positions and the widths of the peaks of a peak model given to
\* get_fidelity on its own, and the thresholds it is asked about, in counts
PeakPositions == {20, 50, 80}
PeakWidths == {1, 5, 20, 60}
FidThreshes == {10 * k : k \in 0..10}

\* images offered to process when some of them cannot be read
MaxUnread == 4

\* images processed with a region of interest
MaxRoiFiles == 2
\* what the user may have typed as xc and yc, and as size of the ROI
RoiCentres == 0..3
RoiSizes == 0..3
\* where the user may have dragged the lower left corner of the ROI to, and
\* its width and height
RoiCorners == -1..2
RoiWidths == 1..3
\* what the user may have typed as number of files to omit / per histogram
OmitTexts == {0, 1}
HistTexts == {1, 2}
\* mr['# hist'] before the first multirun
DefaultHist == 100

Watchers == 1..MaxWatchers

\* os.path.getsize / open() of a path that does not exist
Absent == -1
\* the sync file read as '' (Dexter is rewriting it)
Empty == -1
\* sync file content that int() rejects
Bad == -2
\* system_event_handler.dfn = "" after __init__
NoDfn == -1

VARIABLES
    \* ---- file system and the external programs ----
    fsrc,      \* size of the image file in image_read_path, or Absent
    wimg,      \* number of the image the camera program is writing / wrote last
    wopen,     \* the camera program holds the image file open
    ctr,       \* content of the Dexter sync file: Empty, Bad or a file number
    cnum,      \* file number Dexter is at
    store,     \* image_storage_path: file number -> [img, size] of the copy
    \* ---- per dir_watcher instance: observer thread and event handler ----
    obs,       \* "none" | "running" | "stopped" (observer.stop() was called)
    queue,     \* creation events queued for the observer thread
    pc,        \* position of the observer thread inside on_created
    dfn,       \* event_handler.dfn
    lfs,       \* wait_for_file's last_file_size
    rd,        \* sync_dexter's new_dfn, in the observer thread
    dst,       \* on_created's new_file_name (its file number)
    last_event_path,
    \* ---- GUI thread ----
    dir_watcher, \* main_window.dir_watcher: 0 (None) or the instance
    gpc,       \* position of the GUI thread inside reset_DW
    grd,       \* sync_dexter's new_dfn, in the GUI thread
    nextw,     \* instances created so far
    \* ---- history ----
    steps,     \* stages of on_created completed for the event being handled
    nemit,     \* paths emitted for the event being handled
    names,     \* destination file numbers given to the events of an instance
    esize,     \* size the emitted file had when its path was emitted
    ev,        \* what on_created has tried for the event being handled:
               \* calls of copyfile, calls of os.remove, empty reads of the
               \* sync file (counted up to MaxEmptyReads)
    \* ---- image handler ----
    ih,        \* an image_handler instance: its attributes
    fileno,    \* file number of the last image given to process
    raised,    \* exception that left the last call: "none" or its name
    nloads,    \* calls of load_from_csv so far
    \* ---- main window ----
    mw,        \* the main_window: its widgets' states and the slots
               \* connected to the event_path signal
    clicks,    \* what the user has done with the main window so far
    \* ---- one method called on its own ----
    unit,      \* the method, its arguments and, once it was called, its result
    \* ---- the choice of the event handler ----
    dwmodule   \* directoryWatcher as main.py loads it: the layout of the lines
               \* that choose the handler, whether the import has succeeded,
               \* the dw_mode button and the class of each watcher's handler

camvars == <<fsrc, wimg, wopen>>
dexvars == <<ctr, cnum>>
obsvars == <<obs, queue>>
guivars == <<dir_watcher, gpc, grd, nextw>>

dwstate == <<fsrc, wimg, wopen, ctr, cnum, store, obs, queue, pc, dfn, lfs, rd,
             dst, last_event_path, dir_watcher, gpc, grd, nextw,
             steps, nemit, names, esize, ev>>

ihstate == <<ih, fileno, raised, nloads, mw, clicks>>

\* what an action of the watcher / of the image handler and the main window
\* leaves alone
dwvars == <<dwstate, unit, dwmodule>>

ihvars == <<ihstate, unit, dwmodule>>

vars == <<dwvars, ihvars>>

NoFile == [img |-> 0, size |-> Absent]

\* on_created has tried nothing yet
NoTries == [copies |-> 0, removes |-> 0, empties |-> 0]

\* event.src_path as emitted by the silent handler, where the active handler
\* emits the file number of the copy
SrcPath == -2

\* dir_watcher.__init__, lines 163, 164, 166, 167 (165 goes on inside the
\* parentheses of 164): the column each line starts at and whether it ends
\* with a colon, which opens a block
SelectHandler ==
    << [col |-> 12, opens |-> TRUE],
       [col |-> 12, opens |-> FALSE],
       [col |-> 12, opens |-> TRUE],
       [col |-> 16, opens |-> FALSE] >>

\* the same lines with line 164 under the if of line 163, as the watcher
\* specifications above read them
SelectHandlerIndented == [SelectHandler EXCEPT ![2].col = 16]

\* Python's rule for a compound statement: the line after a colon starts a
\* block, further to the right
well_indented(block) ==
    \A i \in 1..Len(block) :
        block[i].opens => (i < Len(block) /\ block[i + 1].col > block[i].col)

\* the module as the watcher specifications read it, loaded, the dw_mode
\* button as init_UI creates it (main.py line 287: checked, 'Active')
Loaded == [block |-> SelectHandlerIndented, imported |-> "yes",
           dw_mode |-> TRUE, handler |-> [w \in Watchers |-> "none"]]

\* no method is called on its own
NoCall == [fn |-> "none", dfn |-> 0, read |-> 0, sizes |-> <<>>,
           called |-> FALSE, returned |-> FALSE, out |-> 0, reads |-> 0,
           before |-> <<>>, after |-> <<>>, tried |-> <<>>]

\* the stages of system_event_handler.on_created, in source order
Stages == <<"written", "synced", "copied", "copy_written", "deleted">>

(***************************************************************************)
(* imageHandler.py: image_handler.  The attributes of an instance are a    *)
(* record; a method is an operator from the instance (and its arguments)   *)
(* to the instance it leaves.  Array index i of the source is element      *)
(* i + 1 of the sequence.                                                  *)
(***************************************************************************)
\* the (n - 10) of process
Margin == 10
\* image_handler.pic_size after __init__
DefaultPicSize == 512
\* the None that fills the files array
None == 0

\* Counts, thresholds, bin edges and peak positions and widths are floats in
\* the source; the model holds them as integers, in units of 1/S count.  S is
\* a multiple of the numbers of bins and of the denominators of the peak
\* widths that occur.
S == 13680
\* fidelities are held in units of 10^-4 (np.around(..., 4))
FidelityUnit == 10000

\* integrated counts of the images, by file number modulo their number
CountVals == <<30, 70, 100, 0>>

CountsOf(file) == CountVals[(file % Len(CountVals)) + 1]

\* the image file with a file number.  Of its pixel statistics (mean, standard
\* deviation, maximum, position of the maximum) the model keeps which image
\* they are the statistics of.
Image(file) == [file |-> file, counts |-> CountsOf(file), stat |-> file]

\* np.zeros(k) and np.array([None]*k)
zeros(k) == [i \in 1..k |-> 0]

nones(k) == [i \in 1..k |-> None]

\* the per-record arrays
RecordArrays == {"files", "counts", "atom", "max_count", "mean_count",
                 "std_count", "xc_list", "yc_list"}

filler(f, k) == IF f = "files" THEN nones(k) ELSE zeros(k)

\* image_handler.__init__
image_handler ==
    [files |-> nones(n), counts |-> zeros(n), atom |-> zeros(n),
     max_count |-> zeros(n), mean_count |-> zeros(n), std_count |-> zeros(n),
     xc_list |-> zeros(n), yc_list |-> zeros(n), im_num |-> 0,
     thresh |-> S, bin_array |-> <<>>,
     xc |-> 0, yc |-> 0, roi_size |-> 1, pic_size |-> DefaultPicSize,
     peak_indexes |-> <<0, 0>>, peak_heights |-> <<0, 0>>,
     peak_widths |-> <<0, 0>>, peak_counts |-> <<0, 0>>,
     fidelity |-> 0, err_fidelity |-> 0]

\* reset_arrays without the line for max_count
reset_arrays_but_max_count(h) ==
    [f \in DOMAIN h |->
        IF f \in RecordArrays \ {"max_count"} THEN filler(f, n)
        ELSE IF f = "im_num" THEN 0 ELSE h[f]]

\* reset_arrays
reset_arrays(h) ==
    [f \in DOMAIN h |->
        IF f \in RecordArrays THEN filler(f, n)
        ELSE IF f = "im_num" THEN 0 ELSE h[f]]

\* the assignments of add_count to the arrays, in source order
AddOrder == <<"mean_count", "std_count", "counts", "files", "max_count",
              "xc_list", "yc_list">>

\* what add_count stores for image im in array f
field_value(im, f) ==
    IF f = "counts" THEN im.counts
    ELSE IF f = "files" THEN im.file ELSE im.stat

\* number of assignments add_count does before one raises IndexError
\* (all of them: none raises)
add_count_writes(h) ==
    CHOOSE k \in 0..Len(AddOrder) :
        /\ \A j \in 1..k : h.im_num < Len(h[AddOrder[j]])
        /\ k < Len(AddOrder) => ~(h.im_num < Len(h[AddOrder[k + 1]]))

add_count_raises(h) == add_count_writes(h) < Len(AddOrder)

\* add_count: the assignments up to the first IndexError, then im_num += 1
add_count(h, im) ==
    LET k == add_count_writes(h) IN
    [f \in DOMAIN h |->
        IF \E j \in 1..k : AddOrder[j] = f
        THEN [h[f] EXCEPT ![h.im_num + 1] = field_value(im, f)]
        ELSE IF f = "im_num" /\ k = Len(AddOrder) THEN h.im_num + 1
        ELSE h[f]]

\* process, lines 102-109: n more slots for every per-record array
grow(h) ==
    [f \in DOMAIN h |->
        IF f \in RecordArrays THEN h[f] \o filler(f, n) ELSE h[f]]

\* process, lines 99-110: what the except IndexError clause leaves before it
\* calls add_count again
except_IndexError(h) ==
    IF h.im_num % (n - Margin) = 0 /\ 2 * h.im_num > n THEN grow(h) ELSE h

\* process
process(h, im) ==
    IF add_count_raises(h)
    THEN add_count(except_IndexError(add_count(h, im)), im)
    ELSE add_count(h, im)

\* the IndexError of the second add_count leaves process
process_raises(h, im) ==
    /\ add_count_raises(h)
    /\ add_count_raises(except_IndexError(add_count(h, im)))

\* what add_count finds when it reads the image file: the file as written,
\* no file, or a file the camera program has written nothing to yet
FileStates == {"written", "missing", "empty"}

\* add_count, lines 118-134: np.loadtxt raises OSError for a missing file;
\* for an empty file it returns an empty 1-D array, and the ROI slice of
\* that raises IndexError
read_error(state) ==
    IF state = "missing" THEN "OSError"
    ELSE IF state = "empty" THEN "IndexError" ELSE "none"

\* process moving on to the next index after a file it could not read
process_file_skips(h, im, s1, s2) ==
    IF read_error(s1) = "none" THEN process(h, im)
    ELSE [h EXCEPT !.im_num = @ + 1]

\* process of a file that is in state s1 at the first add_count and in s2 at
\* the second: an IndexError of the first is caught, whatever raised it
process_file(h, im, s1, s2) ==
    IF read_error(s1) = "none" THEN process(h, im)
    ELSE IF read_error(s1) # "IndexError" THEN h
    ELSE IF read_error(s2) = "none" THEN add_count(except_IndexError(h), im)
    ELSE except_IndexError(h)

\* the exception that leaves process_file, or "none"
process_file_raises(h, im, s1, s2) ==
    IF read_error(s1) = "none"
    THEN IF process_raises(h, im) THEN "IndexError" ELSE "none"
    ELSE IF read_error(s1) # "IndexError" THEN read_error(s1)
    ELSE IF read_error(s2) # "none" THEN read_error(s2)
    ELSE IF add_count_raises(except_IndexError(h)) THEN "IndexError"
    ELSE "none"

\* a[:k]
take(a, k) == SubSeq(a, 1, IF k < Len(a) THEN k ELSE Len(a))

\* a csv file written by save_state: rows records with file numbers above
\* those of the images, classified with the initial threshold (atom =
\* counts // 1); the files of older versions have no 'Max Count' column
CsvFile(rows, has_max) ==
    [has_max |-> has_max,
     rows |-> [j \in 1..rows |->
                 LET im == Image(MaxFiles + j) IN
                 [files |-> im.file, counts |-> im.counts, atom |-> im.counts,
                  max_count |-> im.stat, xc_list |-> im.stat,
                  yc_list |-> im.stat, mean_count |-> im.stat,
                  std_count |-> im.stat]]]

\* data[:,i] for the column of array f
column(csv, f) == [j \in 1..Len(csv.rows) |-> csv.rows[j][f]]

\* np.genfromtxt returns a 1-D array for a file of fewer than two rows, and
\* data[:,i] raises IndexError in the first assignment
load_from_csv_raises(csv) == Len(csv.rows) < 2

\* max_count from a file without the column, were the zeros for the rows of
\* the file left out
max_count_zeros_short(h, csv) == take(h.max_count, h.im_num) \o zeros(n)

\* load_from_csv, lines 298-300: max_count from a file without the column
max_count_zeros(h, csv) ==
    take(h.max_count, h.im_num) \o zeros(n + Len(csv.rows))

\* load_from_csv
load_from_csv(h, csv) ==
    IF load_from_csv_raises(csv) THEN h
    ELSE [f \in DOMAIN h |->
            IF f = "max_count" /\ ~csv.has_max THEN max_count_zeros(h, csv)
            ELSE IF f \in RecordArrays
            THEN take(h[f], h.im_num) \o column(csv, f) \o filler(f, n)
            ELSE IF f = "im_num" THEN h.im_num + Len(csv.rows)
            ELSE h[f]]

(***************************************************************************)
(* imageAnalyser.py: image_handler, the earlier class of the same name in  *)
(* the one-file version of the program.  It has no max_count array.        *)
(***************************************************************************)
\* the per-record arrays of imageAnalyser.image_handler
ia_RecordArrays == RecordArrays \ {"max_count"}

\* imageAnalyser.image_handler.__init__
ia_image_handler ==
    [f \in {"im_num", "thresh", "bin_array", "xc", "yc", "roi_size",
            "pic_size"} \cup ia_RecordArrays |->
        IF f = "roi_size" THEN -1 ELSE image_handler[f]]

\* the assignments of imageAnalyser's add_count to the arrays, in source
\* order
ia_AddOrder == <<"counts", "files", "xc_list", "yc_list", "mean_count",
                 "std_count">>

\* number of assignments add_count does before one raises IndexError
ia_add_count_writes(h) ==
    CHOOSE k \in 0..Len(ia_AddOrder) :
        /\ \A j \in 1..k : h.im_num < Len(h[ia_AddOrder[j]])
        /\ k < Len(ia_AddOrder) => ~(h.im_num < Len(h[ia_AddOrder[k + 1]]))

ia_add_count_raises(h) == ia_add_count_writes(h) < Len(ia_AddOrder)

\* imageAnalyser.add_count: the assignments up to the first IndexError, then
\* im_num += 1
ia_add_count(h, im) ==
    LET k == ia_add_count_writes(h) IN
    [f \in DOMAIN h |->
        IF \E j \in 1..k : ia_AddOrder[j] = f
        THEN [h[f] EXCEPT ![h.im_num + 1] = field_value(im, f)]
        ELSE IF f = "im_num" /\ k = Len(ia_AddOrder) THEN h.im_num + 1
        ELSE h[f]]

\* imageAnalyser.process, lines 255-261: counts gets n more slots, then
\* mean_count and std_count become the new counts with n more slots
ia_grow(h) ==
    [f \in DOMAIN h |->
        IF f \in {"mean_count", "std_count"}
        THEN h.counts \o zeros(n) \o zeros(n)
        ELSE IF f \in ia_RecordArrays THEN h[f] \o filler(f, n)
        ELSE h[f]]

\* imageAnalyser.process, lines 252-261
ia_except_IndexError(h) ==
    IF h.im_num % (n - Margin) = 0 /\ 2 * h.im_num > n THEN ia_grow(h) ELSE h

\* imageAnalyser.process
ia_process(h, im) ==
    IF ia_add_count_raises(h)
    THEN ia_add_count(ia_except_IndexError(ia_add_count(h, im)), im)
    ELSE ia_add_count(h, im)

ia_process_raises(h, im) ==
    /\ ia_add_count_raises(h)
    /\ ia_add_count_raises(ia_except_IndexError(ia_add_count(h, im)))

\* imageAnalyser.load_from_csv raises IndexError at data[1:,1:] when
\* np.genfromtxt returns a 1-D array
ia_load_from_csv_raises(csv) == Len(csv.rows) < 2

\* imageAnalyser.load_from_csv: np.genfromtxt leaves the header line out, as
\* it is a comment, and data[1:] leaves the first row out
ia_load_from_csv(h, csv) ==
    IF ia_load_from_csv_raises(csv) THEN h
    ELSE [f \in DOMAIN h |->
            IF f \in ia_RecordArrays
            THEN take(h[f], h.im_num)
                   \o SubSeq(column(csv, f), 2, Len(csv.rows))
                   \o filler(f, n)
            ELSE IF f = "im_num" THEN h.im_num + Len(csv.rows) - 1
            ELSE h[f]]

(***************************************************************************)
(* imageHandler.py: the histogram, the peak search and the threshold.      *)
(***************************************************************************)
SetMin(P) == CHOOSE x \in P : \A y \in P : x <= y

SetMax(P) == CHOOSE x \in P : \A y \in P : y <= x

Abs(x) == IF x < 0 THEN -x ELSE x

\* counts[:im_num]
signals(h) == take(h.counts, h.im_num)

values(a) == {a[i] : i \in DOMAIN a}

\* np.linspace(lo, hi, num)
linspace(lo, hi, num) ==
    [k \in 1..num |->
        IF num = 1 THEN lo ELSE lo + ((k - 1) * (hi - lo)) \div (num - 1)]

\* np.histogram(a), the bin edges: 10 bins from the minimum to the maximum;
\* (0, 1) for no data, half a count to each side when all data are equal
auto_edges(d) ==
    LET lo == IF Len(d) = 0 THEN 0 ELSE S * SetMin(values(d))
        hi == IF Len(d) = 0 THEN S ELSE S * SetMax(values(d))
    IN IF lo = hi THEN linspace(lo - S \div 2, hi + S \div 2, 11)
       ELSE linspace(lo, hi, 11)

\* np.histogram, the occupancy: a bin holds the data from its left edge up
\* to but not including its right edge, the last bin includes its right edge
occupancy(d, edges) ==
    [k \in 1..(Len(edges) - 1) |->
        Cardinality({i \in DOMAIN d :
            /\ edges[k] <= S * d[i]
            /\ \/ S * d[i] < edges[k + 1]
               \/ k = Len(edges) - 1 /\ S * d[i] = edges[k + 1]})]

\* np.histogram(d, edges): occupancy and bin edges
bin_count(d, edges) == [occ |-> occupancy(d, edges), bins |-> edges]

\* histogram, lines 211-214: fixed bins if bin_array holds any, else automatic
np_histogram(h) ==
    bin_count(signals(h),
              IF Len(h.bin_array) > 0 THEN h.bin_array
              ELSE auto_edges(signals(h)))

\* scipy.signal.find_peaks: the local maxima of x, as array indexes.  A flat
\* maximum counts by its middle sample; the first and the last sample are
\* never a maximum.
local_maxima(x) ==
    {((p[1] + p[2]) \div 2) - 1 :
        p \in {q \in (2..(Len(x) - 1)) \X (2..(Len(x) - 1)) :
                 /\ q[1] <= q[2]
                 /\ \A k \in q[1]..q[2] : x[k] = x[q[1]]
                 /\ x[q[1] - 1] < x[q[1]]
                 /\ x[q[2] + 1] < x[q[1]]}}

\* the peak of P that find_peaks keeps first: the highest, and of equally
\* high ones the last
top_peak(x, P) ==
    CHOOSE p \in P :
        \A q \in P : x[q + 1] < x[p + 1] \/ (x[q + 1] = x[p + 1] /\ q <= p)

\* find_peaks(distance=d): with peak p kept, the peaks closer to it than d
\* are removed
RECURSIVE select_by_distance(_, _, _)
keep_peak(x, P, d, p) ==
    {p} \cup select_by_distance(
                 x, {q \in P : q # p /\ ~(Abs(q - p) < d)}, d)

\* find_peaks(distance=d): peaks are kept by falling height
select_by_distance(x, P, d) ==
    IF P = {} THEN {} ELSE keep_peak(x, P, d, top_peak(x, P))

\* est_param, lines 27-30: while more than two peaks are found, the distance
\* grows
RECURSIVE est_peaks(_, _)
while_num_peaks(x, d, P) ==
    IF Cardinality(P) > 2
    THEN est_peaks(x, d + (Len(x) \div 500) * 5 + 1)
    ELSE P

\* est_param, line 28: find_peaks(h, width=0, distance=d)
est_peaks(x, d) ==
    while_num_peaks(x, d, select_by_distance(x, local_maxima(x), d))

\* an increment that leaves the distance as it is
inc_none(h) == 0 * Len(h)

\* est_param, line 27: the increment of the distance
inc(h) == (Len(h) \div 500) * 5 + 1

\* est_param, lines 26-28: the locals before the loop
est_param_locals(h) ==
    [fn |-> "est_param", h |-> h, d |-> 1, num_peaks |-> 10,
     peak_inds |-> {}, iterations |-> 0, returned |-> FALSE]

\* est_param, lines 30-32: one pass of the while loop
est_param_pass(loc, P) ==
    [loc EXCEPT !.peak_inds = P,
                !.num_peaks = Cardinality(P),
                !.d = @ + inc(loc.h),
                !.iterations = @ + 1]

\* scipy.signal.peak_prominences: the height of peak p above the higher of
\* the two minima between it and the next higher sample (or the end) on
\* either side
prominence(x, p) ==
    LET q == p + 1
        l == CHOOSE i \in 1..q :
                 /\ \A k \in i..q : x[k] <= x[q]
                 /\ i = 1 \/ x[i - 1] > x[q]
        r == CHOOSE i \in q..Len(x) :
                 /\ \A k \in q..i : x[k] <= x[q]
                 /\ i = Len(x) \/ x[i + 1] > x[q]
    IN x[q] - SetMax({SetMin({x[k] : k \in l..q}),
                      SetMin({x[k] : k \in q..r})})

\* the crossing points l (to the left) and r (to the right) of the height
\* h2 / 2, interpolated linearly, and their distance in units of 1/S sample
interpolated_width(x, h2, l, r) ==
    LET left_ip == S * l + IF 2 * x[l] < h2
                           THEN (S * (h2 - 2 * x[l]))
                                    \div (2 * (x[l + 1] - x[l]))
                           ELSE 0
        right_ip == S * r - IF 2 * x[r] < h2
                            THEN (S * (h2 - 2 * x[r]))
                                     \div (2 * (x[r - 1] - x[r]))
                            ELSE 0
    IN right_ip - left_ip

\* the width of the peak at sample q at the height h2 / 2
width_at(x, q, h2) ==
    interpolated_width(x, h2,
                       SetMax({i \in 1..q : 2 * x[i] <= h2}),
                       SetMin({i \in q..Len(x) : 2 * x[i] <= h2}))

\* scipy.signal.peak_widths(rel_height=0.5): the distance between the points
\* to the left and to the right of peak p where x falls to
\* x[p] - prominence / 2
peak_width(x, p) == width_at(x, p + 1, 2 * x[p + 1] - prominence(x, p))

\* the at most two peaks of P in rising order
peak_seq(P) ==
    IF P = {} THEN <<>>
    ELSE IF Cardinality(P) = 1 THEN <<SetMin(P)>>
    ELSE <<SetMin(P), SetMax(P)>>

\* positions, prominences and widths of the peaks inds
peak_properties(x, inds) ==
    [peak_inds |-> inds,
     prominences |-> [k \in DOMAIN inds |-> prominence(x, inds[k])],
     widths |-> [k \in DOMAIN inds |-> peak_width(x, inds[k])]]

\* est_param: the peaks of the last find_peaks call
est_param(x) == peak_properties(x, peak_seq(est_peaks(x, 1)))

\* a // b of two floats, the floor of the quotient, for b above or below 0
\* (no threshold of the model is 0)
floor_divide(a, b) == IF b > 0 THEN a \div b ELSE (-a) \div (-b)

\* the classification added to atom instead of stored in it
classify_adds(h) ==
    [i \in DOMAIN h.atom |->
        IF i <= h.im_num /\ i <= Len(h.counts)
        THEN h.atom[i] + floor_divide(S * h.counts[i], h.thresh)
        ELSE h.atom[i]]

\* atom[:im_num] = counts[:im_num] // thresh
classify(h) ==
    [i \in DOMAIN h.atom |->
        IF i <= h.im_num /\ i <= Len(h.counts)
        THEN floor_divide(S * h.counts[i], h.thresh) ELSE h.atom[i]]

\* histogram, lines 217-227: the peaks est of the histogram hist are stored
store_peaks(h, hist, est) ==
    LET bw == hist.bins[2] - hist.bins[1] IN
    [h EXCEPT
       !.peak_indexes = est.peak_inds,
       !.peak_heights = est.prominences,
       !.peak_counts = [k \in DOMAIN est.peak_inds |->
                           hist.bins[est.peak_inds[k] + 1] + bw \div 2],
       !.peak_widths =
           IF Len(est.peak_inds) = 2
           THEN [k \in 1..2 |->
                   (bw * (est.widths[k] \div (S \div 120))) \div 240]
           ELSE est.widths,
       !.atom = classify(h)]

\* histogram, line 217: est_param(occ)
histogram_peaks(h, hist) == store_peaks(h, hist, est_param(hist.occ))

\* the threshold moved above the first of two peaks
move_thresh(h1) ==
    IF Len(h1.peak_indexes) = 2
    THEN [h1 EXCEPT !.thresh = h1.peak_counts[1] + 5 * h1.peak_widths[1]]
    ELSE h1

\* histogram moving the threshold as well
histogram_moves_thresh(h) == move_thresh(histogram_peaks(h, np_histogram(h)))

\* histogram
histogram(h) == histogram_peaks(h, np_histogram(h))

\* scipy.stats.norm.cdf at -4, -3.75, ..., 4 standard deviations, in
\* FidelityUnit
PhiTable ==
    <<0, 1, 2, 6, 13, 30, 62, 122, 228, 401, 668, 1056, 1587, 2266, 3085,
      4013, 5000, 5987, 6915, 7734, 8413, 8944, 9332, 9599, 9772, 9878, 9938,
      9970, 9987, 9994, 9998, 9999, 10000>>

\* norm.cdf(x, loc, scale), from the table, (x - loc) / scale rounded to a
\* quarter and clipped to [-4, 4]
norm_cdf(x, loc, scale) ==
    LET z4 == (8 * (x - loc) + scale) \div (2 * scale)
        c == IF z4 < -16 THEN -16 ELSE IF z4 > 16 THEN 16 ELSE z4
    IN PhiTable[c + 17]

\* get_fidelity with the two terms of the fidelity exchanged
get_fidelity_exchanged(h, thresh) ==
    IF Len(h.peak_indexes) = 2
    THEN <<norm_cdf(thresh, h.peak_counts[2], h.peak_widths[2])
             - norm_cdf(thresh, h.peak_counts[1], h.peak_widths[1]), 0>>
    ELSE <<-FidelityUnit, -FidelityUnit>>

\* get_fidelity(thresh): <<fidelity, err_fidelity>>
get_fidelity(h, thresh) ==
    IF Len(h.peak_indexes) = 2
    THEN LET p == h.peak_counts
             w == h.peak_widths
         IN <<norm_cdf(thresh, p[1], w[1]) - norm_cdf(thresh, p[2], w[2]),
              norm_cdf(thresh, p[1] - w[1], w[1])
                - norm_cdf(thresh, p[2] - w[2], w[2])
                - norm_cdf(thresh, p[1] + w[1], w[1])
                + norm_cdf(thresh, p[2] - w[2], w[2])>>
    ELSE <<-FidelityUnit, -FidelityUnit>>

\* search_fidelity keeping the last threshold that has the largest fidelity
max_fidelity_last(h, threshes, best) ==
    IF best > 0
    THEN LET k == SetMax({j \in DOMAIN threshes :
                             get_fidelity(h, threshes[j])[1] = best})
         IN [h EXCEPT !.thresh = threshes[k],
                      !.fidelity = best,
                      !.err_fidelity = get_fidelity(h, threshes[k])[2]]
    ELSE [h EXCEPT !.fidelity = 0, !.err_fidelity = 0]

\* search_fidelity, lines 184-191: best is the largest fidelity found; the
\* first threshold that has it is kept, if it is above 0
max_fidelity(h, threshes, best) ==
    IF best > 0
    THEN LET k == SetMin({j \in DOMAIN threshes :
                             get_fidelity(h, threshes[j])[1] = best})
         IN [h EXCEPT !.thresh = threshes[k],
                      !.fidelity = best,
                      !.err_fidelity = get_fidelity(h, threshes[k])[2]]
    ELSE [h EXCEPT !.fidelity = 0, !.err_fidelity = 0]

\* search_fidelity, lines 183-187: the thresholds are tried in turn
try_threshes(h, threshes) ==
    max_fidelity(h, threshes,
                 SetMax({get_fidelity(h, threshes[k])[1] :
                            k \in DOMAIN threshes} \cup {0}))

\* search_fidelity(p1, p2): of the 10 thresholds from p1 to p2 the first one
\* with the largest fidelity, if that is above 0
search_fidelity(h, p1, p2) == try_threshes(h, linspace(p1, p2, 10))

\* hist_and_thresh, line 205: atom[:im_num] = counts[:im_num] // thresh
set_atom(h) == [h EXCEPT !.atom = classify(h)]

\* hist_and_thresh without the call of search_fidelity
thresh_five_widths(h1) ==
    set_atom(IF Len(h1.peak_indexes) = 2
             THEN [h1 EXCEPT !.thresh = h1.peak_counts[1]
                                        + 5 * h1.peak_widths[1]]
             ELSE h1)

\* hist_and_thresh, lines 199-205, h1 being the handler after histogram()
thresh_from_peaks(h1) ==
    set_atom(IF Len(h1.peak_indexes) = 2
             THEN search_fidelity(
                      [h1 EXCEPT !.thresh = h1.peak_counts[1]
                                            + 5 * h1.peak_widths[1]],
                      h1.peak_counts[1], h1.peak_counts[2])
             ELSE h1)

\* hist_and_thresh setting the threshold above a single peak as well
thresh_from_one_peak(h1) ==
    IF Len(h1.peak_indexes) = 1
    THEN set_atom([h1 EXCEPT !.thresh = h1.peak_counts[1]
                                        + 5 * h1.peak_widths[1]])
    ELSE thresh_from_peaks(h1)

hist_and_thresh_one_peak(h) == thresh_from_one_peak(histogram(h))

\* hist_and_thresh
hist_and_thresh(h) == thresh_from_peaks(histogram(h))

(***************************************************************************)
(* imageHandler.py: save_state and the file it writes.  A number in the    *)
(* file is its text: a sign, the decimal digits before the point and those *)
(* after it.                                                               *)
(***************************************************************************)
RECURSIVE digits(_)
\* the decimal digits of the natural number k
digits(k) == IF k < 10 THEN <<k>> ELSE Append(digits(k \div 10), k % 10)

\* '%s' % x of a float x with a whole value: '-', the digits, '.0'
fmt_float(x) == [minus |-> x < 0, whole |-> digits(Abs(x)), point |-> <<0>>]

\* '%s' % label of a file label, the digits of the file number
fmt_label(k) == [minus |-> FALSE, whole |-> digits(k), point |-> <<>>]

RECURSIVE number(_)
\* the natural number of the decimal digits ds
number(ds) ==
    IF Len(ds) = 0 THEN 0
    ELSE 10 * number(SubSeq(ds, 1, Len(ds) - 1)) + ds[Len(ds)]

\* np.genfromtxt, one field: the float of a text without decimals
float(text) == IF text.minus THEN -number(text.whole) ELSE number(text.whole)

\* save_state, line 312: atom[:im_num] = counts[:im_num] // thresh
save_state(h) == [h EXCEPT !.atom = classify(h)]

\* save_state, lines 314-321: np.savetxt writes the header with 'Max Count'
\* and one row of eight fields for each of the im_num records
savetxt(h) ==
    [has_max |-> TRUE,
     rows |-> [j \in 1..h.im_num |->
                 [f \in RecordArrays |->
                     IF f = "files" THEN fmt_label(h.files[j])
                     ELSE fmt_float(save_state(h)[f][j])]]]

\* load_from_csv, lines 288-290: np.genfromtxt of the rows and the header
genfromtxt(file) ==
    [has_max |-> file.has_max,
     rows |-> [j \in 1..Len(file.rows) |->
                 [f \in RecordArrays |-> float(file.rows[j][f])]]]

(***************************************************************************)
(* imageHandler.py: the image file and the region of interest.  An image   *)
(* file is the sequence of its rows, a row the sequence of its numbers,    *)
(* the first of which is the index column.                                 *)
(***************************************************************************)
\* an image file of 4 rows
ImageFile ==
    << <<0, 1, 2, 3>>,
       <<0, 4, 9, 2>>,
       <<0, 1, 1, 1>>,
       <<0, 0, 0, 5>> >>

\* set_pic_size(im_name): the number of columns of the file less the first
set_pic_size(file) == Len(file[1]) - 1

\* load_full_im(im_name): np.loadtxt(usecols=range(1, pic_size+1)), every
\* row without its first column
load_full_im(h, file) ==
    [r \in 1..Len(file) |-> [c \in 1..h.pic_size |-> file[r][c + 1]]]

\* a[lo:hi] of an axis of length len, as the set of the indexes it takes: a
\* negative bound counts from the end, a bound beyond either end is the end
slice_bound(i, len) ==
    IF i < 0 THEN (IF i + len < 0 THEN 0 ELSE i + len)
    ELSE IF i > len THEN len ELSE i

np_slice(lo, hi, len) ==
    {k \in 0..(len - 1) : slice_bound(lo, len) <= k /\ k < slice_bound(hi, len)}

\* add_count, lines 121-131: the slice of an axis around centre c, with +1
\* to the upper bound for an odd roi_size
roi_slice(h, c, len) ==
    np_slice(c - h.roi_size \div 2,
             c + h.roi_size \div 2 + (h.roi_size % 2), len)

\* add_count, lines 123-124 and 130-131: im_vals, as the <<row, column>>
\* indexes of full_im it holds; xc slices the first axis, yc the second
im_vals(h, full_im) ==
    roi_slice(h, h.xc, Len(full_im)) \X roi_slice(h, h.yc, Len(full_im[1]))

RECURSIVE np_sum(_, _)
\* np.sum over the cells of full_im
np_sum(full_im, cells) ==
    IF cells = {} THEN 0
    ELSE LET c == CHOOSE x \in cells : TRUE
         IN full_im[c[1] + 1][c[2] + 1] + np_sum(full_im, cells \ {c})

\* add_count, lines 118-142: the image as add_count reads it from the file
\* with number k, its integrated counts the sum over the ROI
read_image(h, file, k) ==
    [file |-> k, stat |-> k,
     counts |-> np_sum(load_full_im(h, file),
                       im_vals(h, load_full_im(h, file)))]

\* set_roi(dimensions=[xc, yc, roi_size])
set_roi(h, dimensions) ==
    [h EXCEPT !.xc = dimensions[1], !.yc = dimensions[2],
              !.roi_size = dimensions[3]]

\* roi_text_edit, lines 755-758: the size is replaced when the boundary
\* goes off the edge
off_edge(new_dim, pic_size) ==
    \/ new_dim[1] - new_dim[3] \div 2 < 0
    \/ new_dim[2] - new_dim[3] \div 2 < 0
    \/ new_dim[1] + new_dim[3] \div 2 > pic_size
    \/ new_dim[2] + new_dim[3] \div 2 > pic_size

fit_size(new_dim, pic_size) ==
    IF off_edge(new_dim, pic_size)
    THEN [new_dim EXCEPT ![3] =
             2 * (IF new_dim[1] < new_dim[2] THEN new_dim[1] ELSE new_dim[2])]
    ELSE new_dim

\* roi_text_edit, lines 759-760: can't have zero width
nonzero_size(new_dim) ==
    IF new_dim[3] = 0 THEN [new_dim EXCEPT ![3] = 1] ELSE new_dim

\* roi_text_edit, new_dim being the numbers in the three edits
roi_text_edit(h, new_dim) ==
    set_roi(h, nonzero_size(fit_size(new_dim, h.pic_size)))

\* user_roi: the ROI dragged to corner (x0, y0) with widths xw and yw
user_roi(h, x0, y0, xw, yw) ==
    set_roi(h, <<x0 + ((xw + yw) \div 2) \div 2,
                 y0 + ((xw + yw) \div 2) \div 2,
                 (xw + yw) \div 2>>)

(***************************************************************************)
(* main.py: the main window.  One image handler stands for the two of the  *)
(* source, which every method below treats alike.  The Min. Counts, Max.   *)
(* Counts and # Bins edits stay empty; the Threshold edit holds NoText or  *)
(* a number.  A method takes and returns the pair of the window and the    *)
(* image handler, with the exception that left the method.                 *)
(***************************************************************************)
\* text of an empty QLineEdit
NoText == -1

BinActions == {"Automatic", "Manual", "No Display", "No Update"}

\* main_window.__init__: the widgets as init_UI leaves them
main_window ==
    [thresh_toggle |-> FALSE, bin_action |-> "Automatic",
     dir_watcher |-> FALSE, event_path |-> <<>>,
     im_show_toggle |-> FALSE, multirun_switch |-> FALSE,
     mr |-> [omit |-> 0, hist |-> DefaultHist, vars |-> 0,
             o |-> 0, h |-> 0, v |-> 0],
     threshold_edit |-> NoText]

gui(m, h) == [mw |-> m, ih |-> h, exc |-> "none", saved |-> FALSE]

\* event_path.disconnect() / event_path.connect(slot)
disconnect(g) == [g EXCEPT !.mw.event_path = <<>>]

connect(g, slot) == [g EXCEPT !.mw.event_path = Append(@, slot)]

\* event_path.disconnect(slot): the first connection of the slot is taken
\* away; with none, the TypeError is caught by the caller
RECURSIVE without(_, _)
without(slots, name) ==
    IF slots = <<>> THEN <<>>
    ELSE IF Head(slots) = name THEN Tail(slots)
    ELSE <<Head(slots)>> \o without(Tail(slots), name)

disconnect_slot(g, name) == [g EXCEPT !.mw.event_path = without(@, name)]

\* plot_current_hist([hf]): hf is histogram or hist_and_thresh
plot_current_hist(g, hf) ==
    IF hf = "histogram" THEN [g EXCEPT !.ih = histogram(@)]
    ELSE [g EXCEPT !.ih = hist_and_thresh(@)]

\* im_han.process(event_path)
im_han_process(g, im) ==
    [g EXCEPT !.ih = process(@, im),
              !.exc = IF process_raises(g.ih, im) THEN "IndexError" ELSE @]

\* bins_text_edit, lines 790-803: min_bin, max_bin and num_bins with the
\* Min., Max. and # Bins edits empty
new_vals(h) ==
    IF h.im_num > 0
    THEN <<SetMin(values(signals(h))), SetMax(values(signals(h))),
           20 + h.im_num \div 20>>
    ELSE <<0, 1, 10>>

\* bins_text_edit, lines 809-822, g1 being the window with the new bin_array
set_new_thresh(g1) ==
    IF g1.mw.thresh_toggle
    THEN plot_current_hist(
             [g1 EXCEPT !.ih.thresh =
                 IF g1.mw.threshold_edit # NoText
                 THEN S * g1.mw.threshold_edit ELSE @],
             "histogram")
    ELSE plot_current_hist(g1, "hist_and_thresh")

\* bins_text_edit
bins_text_edit(g) ==
    IF g.mw.bin_action # "Manual" THEN g
    ELSE set_new_thresh(
             [g EXCEPT !.ih.bin_array =
                 linspace(S * new_vals(g.ih)[1], S * new_vals(g.ih)[2],
                          new_vals(g.ih)[3])])

\* swap_signals without the disconnect of lines 1194-1196
swap_signals_keeps(g) ==
    IF g.mw.dir_watcher
    THEN connect(g, IF g.mw.thresh_toggle THEN "update_plot_only"
                    ELSE "update_plot")
    ELSE g

\* swap_signals
swap_signals(g) ==
    IF g.mw.dir_watcher
    THEN connect(disconnect(g),
                 IF g.mw.thresh_toggle THEN "update_plot_only"
                 ELSE "update_plot")
    ELSE disconnect(g)

\* set_thresh(toggle)
set_thresh(g, toggle) ==
    IF toggle
    THEN bins_text_edit(
             IF g.mw.dir_watcher
             THEN connect(disconnect(g), "update_plot_only")
             ELSE disconnect(g))
    ELSE IF g.mw.dir_watcher THEN connect(disconnect(g), "update_plot")
    ELSE disconnect(g)

\* set_im_show(toggle)
set_im_show(g, toggle) ==
    IF ~g.mw.dir_watcher THEN g
    ELSE IF toggle THEN connect(g, "update_im")
    ELSE disconnect_slot(g, "update_im")

\* set_bins, lines 1267-1274: automatic binning
set_bins_automatic(g1) ==
    bins_text_edit(
        plot_current_hist(g1, IF g1.mw.thresh_toggle THEN "histogram"
                              ELSE "hist_and_thresh"))

\* set_bins, lines 1275-1285: No Display or No Update
set_bins_no_plot(g1) ==
    IF ~g1.mw.dir_watcher THEN g1
    ELSE IF g1.mw.bin_action = "No Display"
    THEN connect(connect(g1, "setText"), "process")
    ELSE connect(g1, "setText")

\* set_bins
set_bins(g) ==
    IF g.mw.multirun_switch THEN g
    ELSE IF g.mw.bin_action = "Manual" THEN bins_text_edit(swap_signals(g))
    ELSE IF g.mw.bin_action = "Automatic"
    THEN set_bins_automatic([swap_signals(g) EXCEPT !.ih.bin_array = <<>>])
    ELSE set_bins_no_plot(disconnect(g))

\* reset_DW, as far as the main window goes (the watcher's side is
\* reset_DW_stop, reset_DW_start, remove_im_files and gui_sync_read/set): a
\* new dir_watcher has a new event_path signal
reset_DW(g) ==
    IF g.mw.dir_watcher
    THEN [g EXCEPT !.mw.dir_watcher = FALSE, !.mw.event_path = <<>>]
    ELSE [g EXCEPT !.mw.dir_watcher = TRUE,
                   !.mw.event_path = <<"update_plot">>]

\* what the user may choose in the dialog of check_reset: 'None' (or Cancel),
\* 'Save first, reset ...' or 'reset ...'
ResetChoices == {"None", "Save first, reset", "reset"}

\* save_hist_data, were the statistics added and the file written: it
\* returns 1
save_hist_data_returns(g3) == [g3 EXCEPT !.saved = TRUE]

\* save_hist_data, were the statistics added and the file dialog cancelled
\* or the file not writable (OSError): it returns None or 0
save_hist_data_cancelled(g3) == [g3 EXCEPT !.saved = FALSE]

\* save_hist_data: add_stats_to_plot (line 1544, called with or without a
\* file name) indexes stat_labels with self.atomX+key, the list atomX plus a
\* string (lines 1417-1418): TypeError, which the except OSError of
\* save_hist_data does not catch
save_hist_data(g3) == [g3 EXCEPT !.exc = "TypeError"]

\* check_reset, lines 1626-1630, g3 being the window after save_hist_data:
\* only reset the histograms if the save was successful
reset_if_saved(g3) ==
    IF g3.exc = "none" /\ g3.saved THEN [g3 EXCEPT !.ih = reset_arrays(@)]
    ELSE g3

\* check_reset: choice is what the user chose in the dialog
check_reset(g, choice) ==
    IF choice = "reset" THEN [g EXCEPT !.ih = reset_arrays(@)]
    ELSE IF choice = "Save first, reset"
    THEN reset_if_saved(save_hist_data(g))
    ELSE g

\* the progress label of multirun_go and multirun_step: mr['var list'][v]
\* and the division by '# omit' + '# hist'
multirun_progress(g) ==
    IF g.exc # "none" THEN g
    ELSE IF ~(g.mw.mr.v < g.mw.mr.vars) THEN [g EXCEPT !.exc = "IndexError"]
    ELSE IF g.mw.mr.omit + g.mw.mr.hist = 0
    THEN [g EXCEPT !.exc = "ZeroDivisionError"]
    ELSE g

\* multirun_go, lines 1213-1229, g1 being the window after the histogram is
\* plotted and the slots are disconnected
multirun_start(g1, omit, hist) ==
    IF g1.mw.dir_watcher
    THEN multirun_progress(
             [connect(g1, "multirun_step") EXCEPT
                 !.mw.mr.omit = omit, !.mw.mr.hist = hist,
                 !.mw.mr.o = 0, !.mw.mr.h = 0, !.mw.mr.v = 0])
    ELSE [g1 EXCEPT !.mw.multirun_switch = FALSE]

\* multirun_go, lines 1209-1229, g0 being the window after check_reset
multirun_plot(g0, omit, hist) ==
    IF g0.exc # "none" THEN g0
    ELSE multirun_start(disconnect(plot_current_hist(g0, "histogram")),
                        omit, hist)

\* multirun_go(toggle); omit and hist are the numbers in omit_edit and
\* multirun_hist_size
multirun_go(g, toggle, choice, omit, hist) ==
    IF toggle /\ g.mw.mr.vars > 0
    THEN multirun_plot(check_reset(g, choice), omit, hist)
    ELSE multirun_progress(set_bins(g))

\* multirun_resume: setChecked emits toggled, not clicked, so multirun_go
\* is not called
multirun_resume(g) ==
    IF g.mw.multirun_switch THEN g
    ELSE IF g.mw.dir_watcher
    THEN connect(disconnect([g EXCEPT !.mw.multirun_switch = TRUE]),
                 "multirun_step")
    ELSE disconnect([g EXCEPT !.mw.multirun_switch = TRUE])

\* clear_multirun_vars
clear_multirun_vars(g) ==
    IF g.mw.multirun_switch THEN g ELSE [g EXCEPT !.mw.mr.vars = 0]

\* what the user may answer to the question of load_empty_hist
Replies == {"Yes", "No", "Cancel"}

\* load_empty_hist, lines 1649-1650 and 1652-1654, g3 being the window after
\* save_hist_data or the window itself
reset_after(g3) ==
    IF g3.exc # "none" THEN g3 ELSE [g3 EXCEPT !.ih = reset_arrays(@)]

\* load_empty_hist: reply is the button the user pressed
load_empty_hist(g, reply) ==
    IF reply = "Cancel" THEN g
    ELSE IF reply = "Yes" THEN reset_after(save_hist_data(g))
    ELSE reset_after(g)

\* update_stats
update_stats(g) ==
    IF g.ih.im_num > 0
    THEN plot_current_hist(g, IF g.mw.thresh_toggle THEN "histogram"
                              ELSE "hist_and_thresh")
    ELSE g

\* update_stats, lines 870-873: the number of images above the threshold
atom_count(h) == Cardinality({i \in 1..h.im_num : h.atom[i] > 0})

\* update_stats, lines 870 and 875-876: the number of images below it
empty_count(h) == Cardinality({i \in 1..h.im_num : h.atom[i] = 0})

\* fit_gaussians, lines 977-979 and 985-987, with the threshold set by the
\* user, h1 being the handler after histogram().  The fit itself (fitCurve)
\* is not among the sources; the fitted centres and widths are taken to be
\* the peak estimates of histogram().
fitted(m, h1) ==
    [h1 EXCEPT !.fidelity = get_fidelity(h1, h1.thresh)[1],
               !.err_fidelity = get_fidelity(h1, h1.thresh)[2]]

\* fit_gaussians, g1 being the window after histogram(): fit says whether
\* the two Gaussian fits succeed.  With the threshold not set by the user,
\* lines 983-984 call search_fidelity with three positional arguments and
\* n=100: TypeError, n is given twice.
fit_gaussians(g1, fit) ==
    IF ~fit THEN g1
    ELSE IF g1.mw.thresh_toggle
    THEN plot_current_hist([g1 EXCEPT !.ih = fitted(g1.mw, g1.ih)],
                           "histogram")
    ELSE [g1 EXCEPT !.exc = "TypeError"]

\* update_fit
update_fit(g, fit) ==
    IF g.ih.im_num = 0 THEN [g EXCEPT !.exc = "UnboundLocalError"]
    ELSE fit_gaussians(plot_current_hist(g, "histogram"), fit)

\* update_plot / update_plot_only after im_han.process: the plot with hf
plot_processed(g1, hf) ==
    IF g1.exc # "none" THEN g1 ELSE plot_current_hist(g1, hf)

\* main_window.update_plot
update_plot(g, im) ==
    plot_processed(im_han_process(g, im), "hist_and_thresh")

\* main_window.update_plot_only
update_plot_only(g, im) == plot_processed(im_han_process(g, im), "histogram")

\* multirun_step, lines 1384-1386, g3 being the window after save_hist_data:
\* the histogram is cleared
clear_histogram(g3) ==
    IF g3.exc # "none" THEN g3
    ELSE [g3 EXCEPT !.ih = reset_arrays(@), !.mw.mr.v = @ + 1]

\* multirun_step, lines 1373-1386, g2 being the window after update_fit
fit_failed(g2, fit) ==
    IF g2.exc # "none" THEN g2
    ELSE clear_histogram(
             save_hist_data(IF fit THEN g2 ELSE update_stats(g2)))

\* multirun_step, lines 1368-1387: a histogram is complete
multirun_save(g, fit) ==
    fit_failed(update_fit(bins_text_edit(
                              [g EXCEPT !.mw.mr.o = 0, !.mw.mr.h = 0]),
                          fit),
               fit)

\* multirun_step, line 1398
reset_counters(g) == [g EXCEPT !.mw.mr.o = 0, !.mw.mr.h = 0, !.mw.mr.v = 0]

\* multirun_step, lines 1389-1401: the last histogram is saved
multirun_end(g) ==
    reset_counters(set_bins([g EXCEPT !.mw.multirun_switch = FALSE]))

\* multirun_step, lines 1359-1366: the image is added to the histogram
add_to_histogram(p) ==
    IF p.exc # "none" THEN p
    ELSE [plot_current_hist(p, "hist_and_thresh") EXCEPT !.mw.mr.h = @ + 1]

\* multirun_step, lines 1353-1366: the image is omitted or processed
omit_or_process(g, im) ==
    IF ~(g.mw.mr.v < g.mw.mr.vars) THEN g
    ELSE IF g.mw.mr.o < g.mw.mr.omit THEN [g EXCEPT !.mw.mr.o = @ + 1]
    ELSE IF g.mw.mr.h < g.mw.mr.hist
    THEN add_to_histogram(im_han_process(g, im))
    ELSE g

\* multirun_step, line 1368
histogram_complete(g1, fit) ==
    IF /\ g1.exc = "none"
       /\ g1.mw.mr.v < g1.mw.mr.vars
       /\ g1.mw.mr.o = g1.mw.mr.omit
       /\ g1.mw.mr.h = g1.mw.mr.hist
    THEN multirun_save(g1, fit)
    ELSE g1

\* multirun_step, line 1389
multirun_complete(g2) ==
    IF g2.exc = "none" /\ g2.mw.mr.v = g2.mw.mr.vars
    THEN multirun_end(g2)
    ELSE g2

\* multirun_step(event_path)
multirun_step(g, im, fit) ==
    multirun_progress(
        multirun_complete(histogram_complete(omit_or_process(g, im), fit)))

\* one slot of the event_path signal
slot(g, name, im, fit) ==
    IF name = "update_plot" THEN update_plot(g, im)
    ELSE IF name = "update_plot_only" THEN update_plot_only(g, im)
    ELSE IF name = "multirun_step" THEN multirun_step(g, im, fit)
    ELSE IF name = "process" THEN im_han_process(g, im)
    ELSE g

\* event_path.emit(path): the slots connected at the time of the emit, in
\* the order of their connection; an exception ends the delivery
RECURSIVE deliver(_, _, _, _)
deliver(g, slots, im, fit) ==
    IF slots = <<>> \/ g.exc # "none" THEN g
    ELSE deliver(slot(g, Head(slots), im, fit), Tail(slots), im, fit)

(***************************************************************************)
(* system_event_handler.__init__ / main_window.__init__                    *)
(***************************************************************************)
InitDW ==
    /\ fsrc = Absent /\ wimg = 0 /\ wopen = FALSE
    /\ cnum \in 0..MaxCtr /\ ctr = cnum
    /\ store = [k \in 0..(MaxCtr + 1) |-> NoFile]
    /\ obs = [w \in Watchers |-> "none"]
    /\ queue = [w \in Watchers |-> 0]
    /\ pc = [w \in Watchers |-> "idle"]
    /\ dfn = [w \in Watchers |-> NoDfn]
    /\ lfs = [w \in Watchers |-> -1]
    /\ rd = [w \in Watchers |-> Empty]
    /\ dst = [w \in Watchers |-> NoDfn]
    /\ last_event_path = [w \in Watchers |-> NoDfn]
    /\ dir_watcher = 0 /\ gpc = "idle" /\ grd = Empty /\ nextw = 0
    /\ steps = [w \in Watchers |-> <<>>]
    /\ nemit = [w \in Watchers |-> 0]
    /\ names = [w \in Watchers |-> <<>>]
    /\ esize = [w \in Watchers |-> Absent]
    /\ ev = [w \in Watchers |-> NoTries]

\* image_handler.__init__
InitIH ==
    /\ ih = image_handler
    /\ fileno = 0 /\ raised = "none" /\ nloads = 0

\* main_window.__init__
InitGUI == mw = main_window /\ clicks = 0

Init == InitDW /\ InitIH /\ InitGUI /\ unit = NoCall /\ dwmodule = Loaded

(***************************************************************************)
(* The external programs.                                                  *)
(***************************************************************************)
\* the camera program creates the image file: every running observer gets a
\* file-creation event
WCreate(maxImages) ==
    /\ fsrc = Absent /\ ~wopen /\ wimg < maxImages
    /\ wimg' = wimg + 1 /\ fsrc' = 0 /\ wopen' = TRUE
    /\ queue' = [w \in Watchers |->
                    IF obs[w] = "running" THEN queue[w] + 1 ELSE queue[w]]
    /\ UNCHANGED <<dexvars, store, obs, pc, dfn, lfs, rd, dst,
                   last_event_path, guivars, steps, nemit, names, esize>>
    /\ UNCHANGED <<ev, ihvars>>

\* the camera program writes the next chunk of the image
WWrite ==
    /\ wopen /\ fsrc # Absent /\ fsrc < Full
    /\ fsrc' = fsrc + 1
    /\ UNCHANGED <<wimg, wopen, dexvars, store, obsvars, pc, dfn, lfs, rd,
                   dst, last_event_path, guivars, steps, nemit, names, esize>>
    /\ UNCHANGED <<ev, ihvars>>

\* the camera program lets go of the image file
WClose ==
    /\ wopen /\ fsrc \in {Absent, Full}
    /\ wopen' = FALSE
    /\ UNCHANGED <<fsrc, wimg, dexvars, store, obsvars, pc, dfn, lfs, rd,
                   dst, last_event_path, guivars, steps, nemit, names, esize>>
    /\ UNCHANGED <<ev, ihvars>>

\* Dexter starts rewriting the sync file: it reads as ''
DexterBegin ==
    /\ ctr # Empty
    /\ ctr' = Empty
    /\ UNCHANGED <<camvars, cnum, store, obsvars, pc, dfn, lfs, rd, dst,
                   last_event_path, guivars, steps, nemit, names, esize>>
    /\ UNCHANGED <<ev, ihvars>>

\* Dexter finishes rewriting the sync file: the same number (it lags), the
\* next number, or content that is not an integer
DexterEnd ==
    /\ ctr = Empty
    /\ \/ ctr' = cnum /\ cnum' = cnum
       \/ cnum < MaxCtr /\ cnum' = cnum + 1 /\ ctr' = cnum + 1
       \/ ctr' = Bad /\ cnum' = cnum
    /\ UNCHANGED <<camvars, store, obsvars, pc, dfn, lfs, rd, dst,
                   last_event_path, guivars, steps, nemit, names, esize>>
    /\ UNCHANGED <<ev, ihvars>>

(***************************************************************************)
(* system_event_handler, run by the observer thread of instance w.        *)
(***************************************************************************)
\* an exception leaves on_created: nothing in the source catches it, and the
\* observer thread ends with it
Raise(w) == pc' = [pc EXCEPT ![w] = "dead"]

\* os.path.getsize(file_name) of wait_for_file: the source (event.src_path)
\* or the copy (new_file_name)
getsize(w, which) ==
    IF which = "src" THEN fsrc ELSE store[dst[w]].size

\* the observer thread takes a creation event off its queue and calls
\* on_created
on_created(w) ==
    /\ obs[w] = "running" /\ pc[w] = "idle" /\ queue[w] > 0
    /\ queue' = [queue EXCEPT ![w] = @ - 1]
    /\ pc' = [pc EXCEPT ![w] = "w_cond"]
    /\ lfs' = [lfs EXCEPT ![w] = -1]
    /\ steps' = [steps EXCEPT ![w] = <<>>]
    /\ nemit' = [nemit EXCEPT ![w] = 0]
    /\ UNCHANGED <<camvars, dexvars, store, obs, dfn, rd, dst,
                   last_event_path, guivars, names, esize>>
    /\ ev' = [ev EXCEPT ![w] = NoTries]
    /\ UNCHANGED ihvars

\* wait_for_file, the loop condition: last_file_size != getsize(file_name)
wait_cond(w, which, here, body, next, stage) ==
    /\ pc[w] = here
    /\ IF getsize(w, which) = Absent
       THEN Raise(w) /\ UNCHANGED steps
       ELSE IF lfs[w] # getsize(w, which)
       THEN pc' = [pc EXCEPT ![w] = body] /\ UNCHANGED steps
       ELSE /\ pc' = [pc EXCEPT ![w] = next]
            /\ steps' = [steps EXCEPT ![w] = Append(@, stage)]
    /\ UNCHANGED <<camvars, dexvars, store, obsvars, dfn, lfs, rd, dst,
                   last_event_path, guivars, nemit, names, esize>>
    /\ UNCHANGED <<ev, ihvars>>

\* wait_for_file, the loop body: last_file_size = getsize(file_name); sleep
wait_body(w, which, here, cond) ==
    /\ pc[w] = here
    /\ IF getsize(w, which) = Absent
       THEN Raise(w) /\ UNCHANGED lfs
       ELSE /\ lfs' = [lfs EXCEPT ![w] = getsize(w, which)]
            /\ pc' = [pc EXCEPT ![w] = cond]
    /\ UNCHANGED <<camvars, dexvars, store, obsvars, dfn, rd, dst,
                   last_event_path, guivars, steps, nemit, names, esize>>
    /\ UNCHANGED <<ev, ihvars>>

\* on_created line 78: wait until the source has been written
wait_written_cond(w) ==
    wait_cond(w, "src", "w_cond", "w_body", "sync_read", "written")

wait_written_body(w) == wait_body(w, "src", "w_body", "w_cond")

\* sync_dexter taking the number read as it is
sync_value_read(old, new) == new

\* sync_dexter's update of dfn from the number read
sync_value(old, new) == IF old # new THEN new ELSE new + 1

\* sync_dexter giving up on a sync file that reads as '': on_created goes on
\* with dfn as it is
sync_empty_goes_on(w) ==
    /\ pc[w] = "sync_read" /\ ctr = Empty
    /\ ev[w].empties < MaxEmptyReads
    /\ ev' = [ev EXCEPT ![w].empties = @ + 1]
    /\ pc' = [pc EXCEPT ![w] = "copy"]
    /\ UNCHANGED <<camvars, dexvars, store, obsvars, dfn, lfs, rd, dst,
                   last_event_path, guivars, steps, nemit, names, esize>>
    /\ UNCHANGED ihvars

\* sync_dexter, lines 61-64 and 70: the sync file reads as ''; nothing is
\* assigned and the file is read again after the sleep
sync_empty(w) ==
    /\ pc[w] = "sync_read" /\ ctr = Empty
    /\ ev[w].empties < MaxEmptyReads
    /\ ev' = [ev EXCEPT ![w].empties = @ + 1]
    /\ UNCHANGED <<camvars, dexvars, store, obsvars, pc, dfn, lfs, rd, dst,
                   last_event_path, guivars, steps, nemit, names, esize>>
    /\ UNCHANGED ihvars

\* sync_dexter, lines 62-63: read the sync file; a number goes on to the
\* update, anything else that is not '' makes int() raise
sync_read(w) ==
    /\ pc[w] = "sync_read" /\ ctr # Empty
    /\ IF ctr = Bad
       THEN Raise(w) /\ UNCHANGED rd
       ELSE /\ rd' = [rd EXCEPT ![w] = ctr]
            /\ pc' = [pc EXCEPT ![w] = "sync_set"]
    /\ UNCHANGED <<camvars, dexvars, store, obsvars, dfn, lfs, dst,
                   last_event_path, guivars, steps, nemit, names, esize>>
    /\ UNCHANGED <<ev, ihvars>>

\* sync_dexter, lines 65-68
sync_set(w) ==
    /\ pc[w] = "sync_set"
    /\ dfn' = [dfn EXCEPT ![w] = sync_value(@, rd[w])]
    /\ pc' = [pc EXCEPT ![w] = "copy"]
    /\ steps' = [steps EXCEPT ![w] = Append(@, "synced")]
    /\ UNCHANGED <<camvars, dexvars, store, obsvars, lfs, rd, dst,
                   last_event_path, guivars, nemit, names, esize>>
    /\ UNCHANGED <<ev, ihvars>>

\* shutil.copyfile(event.src_path, new_file_name) succeeds: the copy holds
\* what the source holds now, and replaces a stored file of the same name
copyfile(w, name) ==
    /\ store' = [store EXCEPT ![name] = [img |-> wimg, size |-> fsrc]]
    /\ pc' = [pc EXCEPT ![w] = "c_cond"]
    /\ lfs' = [lfs EXCEPT ![w] = -1]
    /\ steps' = [steps EXCEPT ![w] = Append(@, "copied")]

\* on_created lines 85-91: compose new_file_name from dfn, then copy; a
\* PermissionError (the camera program still holds the file) leads to the
\* retry
copy_first(w) ==
    /\ pc[w] = "copy"
    /\ dst' = [dst EXCEPT ![w] = dfn[w]]
    /\ names' = [names EXCEPT ![w] = Append(@, dfn[w])]
    /\ \/ /\ fsrc = Absent
          /\ Raise(w) /\ UNCHANGED <<store, lfs, steps>>
       \/ /\ fsrc # Absent /\ wopen
          /\ pc' = [pc EXCEPT ![w] = "copy_retry"]
          /\ UNCHANGED <<store, lfs, steps>>
       \/ /\ fsrc # Absent
          /\ copyfile(w, dfn[w])
    /\ UNCHANGED <<camvars, dexvars, obsvars, dfn, rd, last_event_path,
                   guivars, nemit, esize>>
    /\ ev' = [ev EXCEPT ![w].copies = 1]
    /\ UNCHANGED ihvars

\* on_created with a retry of the copy that is repeated on a second
\* PermissionError
copy_retry_again(w) ==
    /\ pc[w] = "copy_retry" /\ ev[w].copies < 3
    /\ \/ /\ fsrc = Absent
          /\ Raise(w) /\ UNCHANGED <<store, lfs, steps>>
       \/ /\ fsrc # Absent /\ wopen
          /\ UNCHANGED <<pc, store, lfs, steps>>
       \/ /\ fsrc # Absent
          /\ copyfile(w, dst[w])
    /\ UNCHANGED <<camvars, dexvars, obsvars, dfn, rd, dst, last_event_path,
                   guivars, nemit, names, esize>>
    /\ ev' = [ev EXCEPT ![w].copies = @ + 1]
    /\ UNCHANGED ihvars

\* on_created lines 92-93: the one retry; a second PermissionError is fatal
copy_retry(w) ==
    /\ pc[w] = "copy_retry"
    /\ \/ /\ fsrc = Absent \/ wopen
          /\ Raise(w) /\ UNCHANGED <<store, lfs, steps>>
       \/ /\ fsrc # Absent
          /\ copyfile(w, dst[w])
    /\ UNCHANGED <<camvars, dexvars, obsvars, dfn, rd, dst, last_event_path,
                   guivars, nemit, names, esize>>
    /\ ev' = [ev EXCEPT ![w].copies = 2]
    /\ UNCHANGED ihvars

\* on_created without the os.remove of lines 98-103: the path is emitted as
\* soon as the copy has been written
wait_copied_no_remove(w) ==
    wait_cond(w, "dst", "c_cond", "c_body", "emit", "copy_written")

\* on_created line 96: wait until the copy has been written
wait_copied_cond(w) ==
    wait_cond(w, "dst", "c_cond", "c_body", "remove", "copy_written")

wait_copied_body(w) == wait_body(w, "dst", "c_body", "c_cond")

\* os.remove(event.src_path) succeeds
remove_done(w) ==
    /\ fsrc' = Absent
    /\ pc' = [pc EXCEPT ![w] = "emit"]
    /\ steps' = [steps EXCEPT ![w] = Append(@, "deleted")]

\* on_created lines 98-101
remove_first(w) ==
    /\ pc[w] = "remove"
    /\ \/ /\ fsrc = Absent
          /\ Raise(w) /\ UNCHANGED <<fsrc, steps>>
       \/ /\ fsrc # Absent /\ wopen
          /\ pc' = [pc EXCEPT ![w] = "remove_retry"]
          /\ UNCHANGED <<fsrc, steps>>
       \/ /\ fsrc # Absent
          /\ remove_done(w)
    /\ UNCHANGED <<wimg, wopen, dexvars, store, obsvars, dfn, lfs, rd, dst,
                   last_event_path, guivars, nemit, names, esize>>
    /\ ev' = [ev EXCEPT ![w].removes = 1]
    /\ UNCHANGED ihvars

\* on_created lines 102-103
remove_retry(w) ==
    /\ pc[w] = "remove_retry"
    /\ \/ /\ fsrc = Absent \/ wopen
          /\ Raise(w) /\ UNCHANGED <<fsrc, steps>>
       \/ /\ fsrc # Absent
          /\ remove_done(w)
    /\ UNCHANGED <<wimg, wopen, dexvars, store, obsvars, dfn, lfs, rd, dst,
                   last_event_path, guivars, nemit, names, esize>>
    /\ ev' = [ev EXCEPT ![w].removes = 2]
    /\ UNCHANGED ihvars

\* on_created lines 105-106: last_event_path = new_file_name; emit
emit(w) ==
    /\ pc[w] = "emit"
    /\ last_event_path' = [last_event_path EXCEPT ![w] = dst[w]]
    /\ esize' = [esize EXCEPT ![w] = store[dst[w]].size]
    /\ nemit' = [nemit EXCEPT ![w] = @ + 1]
    /\ pc' = [pc EXCEPT ![w] = "idle"]
    /\ UNCHANGED <<camvars, dexvars, store, obsvars, dfn, lfs, rd, dst,
                   guivars, steps, names>>
    /\ ev' = [ev EXCEPT ![w] = NoTries]
    /\ UNCHANGED ihvars

(***************************************************************************)
(* main_window.reset_DW and closeEvent, run by the GUI thread.            *)
(***************************************************************************)
\* observer.stop(): signals the observer thread to stop and unschedules its
\* watches; the thread is not joined
observer_stop(w) ==
    /\ obs' = [obs EXCEPT ![w] = "stopped"]
    /\ queue' = [queue EXCEPT ![w] = 0]

\* reset_DW lines 606-612: a watcher exists, stop it and drop it
reset_DW_stop ==
    /\ gpc = "idle" /\ dir_watcher # 0
    /\ observer_stop(dir_watcher)
    /\ dir_watcher' = 0
    /\ UNCHANGED <<camvars, dexvars, store, pc, dfn, lfs, rd, dst,
                   last_event_path, gpc, grd, nextw, steps, nemit, names,
                   esize>>
    /\ UNCHANGED <<ev, ihvars>>

\* reset_DW lines 615-617: dw.dir_watcher(...) creates the event handler and
\* starts the observer (dir_watcher.__init__ lines 163-175, with line 164
\* read as the body of the if of line 163: the active handler)
reset_DW_start(maxWatchers) ==
    /\ gpc = "idle" /\ dir_watcher = 0 /\ nextw < maxWatchers
    /\ nextw' = nextw + 1
    /\ dir_watcher' = nextw + 1
    /\ obs' = [obs EXCEPT ![nextw + 1] = "running"]
    /\ gpc' = "remove_im_files"
    /\ UNCHANGED <<camvars, dexvars, store, queue, pc, dfn, lfs, rd, dst,
                   last_event_path, grd, steps, nemit, names, esize>>
    /\ UNCHANGED <<ev, ihvars>>

\* reset_DW line 618, remove_im_files: the user answers No, or answers Yes
\* and the image file in image_read_path is removed; a PermissionError
\* leaves reset_DW
remove_im_files ==
    /\ gpc = "remove_im_files"
    /\ \/ gpc' = "sync_read" /\ UNCHANGED fsrc
       \/ fsrc # Absent /\ fsrc' = Absent /\ gpc' = "sync_read"
       \/ fsrc # Absent /\ wopen /\ gpc' = "idle" /\ UNCHANGED fsrc
    /\ UNCHANGED <<wimg, wopen, dexvars, store, obsvars, pc, dfn, lfs, rd,
                   dst, last_event_path, dir_watcher, grd, nextw, steps,
                   nemit, names, esize>>
    /\ UNCHANGED <<ev, ihvars>>

\* reset_DW line 620: event_handler.sync_dexter() in the GUI thread, the read
gui_sync_read ==
    /\ gpc = "sync_read" /\ ctr # Empty
    /\ IF ctr = Bad
       THEN gpc' = "idle" /\ UNCHANGED grd
       ELSE grd' = ctr /\ gpc' = "sync_set"
    /\ UNCHANGED <<camvars, dexvars, store, obsvars, pc, dfn, lfs, rd, dst,
                   last_event_path, dir_watcher, nextw, steps, nemit, names,
                   esize>>
    /\ UNCHANGED <<ev, ihvars>>

\* reset_DW line 620: event_handler.sync_dexter() in the GUI thread, the
\* update of dfn
gui_sync_set ==
    /\ gpc = "sync_set"
    /\ dfn' = [dfn EXCEPT ![dir_watcher] = sync_value(@, grd)]
    /\ gpc' = "idle"
    /\ UNCHANGED <<camvars, dexvars, store, obsvars, pc, lfs, rd, dst,
                   last_event_path, dir_watcher, grd, nextw, steps, nemit,
                   names, esize>>
    /\ UNCHANGED <<ev, ihvars>>

\* closeEvent, Save or Discard: stop the observer and accept the event
closeEvent ==
    /\ gpc = "idle"
    /\ IF dir_watcher # 0
       THEN observer_stop(dir_watcher)
       ELSE UNCHANGED <<obs, queue>>
    /\ gpc' = "closed"
    /\ UNCHANGED <<camvars, dexvars, store, pc, dfn, lfs, rd, dst,
                   last_event_path, dir_watcher, grd, nextw, steps, nemit,
                   names, esize>>
    /\ UNCHANGED <<ev, ihvars>>

(***************************************************************************)
(* The file-arrival protocol.                                              *)
(***************************************************************************)
Handler(w) ==
    \/ on_created(w)
    \/ wait_written_cond(w)
    \/ wait_written_body(w)
    \/ sync_empty(w)
    \/ sync_read(w)
    \/ sync_set(w)
    \/ copy_first(w)
    \/ copy_retry(w)
    \/ wait_copied_cond(w)
    \/ wait_copied_body(w)
    \/ remove_first(w)
    \/ remove_retry(w)
    \/ emit(w)

Protocol(maxImages, maxWatchers) ==
    \/ WCreate(maxImages) \/ WWrite \/ WClose
    \/ DexterBegin \/ DexterEnd
    \/ \E w \in Watchers : Handler(w)
    \/ reset_DW_stop \/ reset_DW_start(maxWatchers) \/ remove_im_files
    \/ gui_sync_read \/ gui_sync_set
    \/ closeEvent

\* one watcher instance, MaxImages images
NextDW == Protocol(MaxImages, 1)

SpecDW == Init /\ [][NextDW]_vars

\* the watcher is stopped and started again, MaxImages2 images
NextDW2 == Protocol(MaxImages2, MaxWatchers)

SpecDW2 == Init /\ [][NextDW2]_vars

\* one watcher instance and MaxImages2 images.  The observer thread is
\* scheduled again and again, and a poll that could succeed again and again
\* does succeed at some time; the camera program and Dexter need not go on.
NextLive == Protocol(MaxImages2, 1)

SpecLive == Init /\ [][NextLive]_vars /\ SF_vars(Handler(1))

\* the same without the scheduling condition
SpecDW1 == Init /\ [][NextLive]_vars

(***************************************************************************)
(* The watcher in passive mode: silent_event_handler.                      *)
(***************************************************************************)
\* main.py line 42, import directoryWatcher as dw: the file is compiled; a
\* block that is not indented raises IndentationError and main.py stops
import_directoryWatcher ==
    /\ dwmodule.imported = "no"
    /\ dwmodule' = [dwmodule EXCEPT !.imported =
                        IF well_indented(dwmodule.block)
                        THEN "yes" ELSE "IndentationError"]
    /\ UNCHANGED <<dwstate, ihstate, unit>>

\* dw_mode_switch: the user clicks the Active / Passive button
dw_mode_switch ==
    /\ dwmodule.imported = "yes" /\ gpc = "idle"
    /\ dwmodule' = [dwmodule EXCEPT !.dw_mode = ~@]
    /\ UNCHANGED <<dwstate, ihstate, unit>>

\* dir_watcher.__init__ lines 163-167 with the block indented: the class of
\* the event handler
event_handler(active) == IF active THEN "system" ELSE "silent"

\* reset_DW lines 615-617 with dw_mode not checked: dir_watcher(active=False)
reset_DW_start_passive ==
    /\ dwmodule.imported = "yes" /\ ~dwmodule.dw_mode
    /\ gpc = "idle" /\ dir_watcher = 0 /\ nextw < MaxWatchers
    /\ nextw' = nextw + 1
    /\ dir_watcher' = nextw + 1
    /\ obs' = [obs EXCEPT ![nextw + 1] = "running"]
    /\ gpc' = "remove_im_files"
    /\ dwmodule' = [dwmodule EXCEPT
                        !.handler[nextw + 1] = event_handler(dwmodule.dw_mode)]
    /\ UNCHANGED <<camvars, dexvars, store, queue, pc, dfn, lfs, rd, dst,
                   last_event_path, grd, steps, nemit, names, esize, ev>>
    /\ UNCHANGED <<ihstate, unit>>

\* silent_event_handler.on_created line 130: wait until the file has been
\* written, then go on to the emit
silent_wait_written_cond(w) ==
    wait_cond(w, "src", "w_cond", "w_body", "silent_emit", "written")

\* silent_event_handler.on_created lines 133-134: last_event_path =
\* event.src_path; emit
silent_emit(w) ==
    /\ pc[w] = "silent_emit"
    /\ last_event_path' = [last_event_path EXCEPT ![w] = SrcPath]
    /\ esize' = [esize EXCEPT ![w] = fsrc]
    /\ nemit' = [nemit EXCEPT ![w] = @ + 1]
    /\ pc' = [pc EXCEPT ![w] = "idle"]
    /\ UNCHANGED <<camvars, dexvars, store, obsvars, dfn, lfs, rd, dst,
                   guivars, steps, names>>
    /\ UNCHANGED <<ev, ihvars>>

\* silent_event_handler, run by the observer thread of instance w
SilentHandler(w) ==
    /\ dwmodule.handler[w] = "silent"
    /\ \/ on_created(w)
       \/ silent_wait_written_cond(w)
       \/ wait_written_body(w)
       \/ silent_emit(w)

\* the user keeps the watcher in passive mode whenever it is started
NextSilent ==
    \/ import_directoryWatcher
    \/ dw_mode_switch
    \/ WCreate(MaxImages2) \/ WWrite \/ WClose
    \/ DexterBegin \/ DexterEnd
    \/ \E w \in Watchers : SilentHandler(w)
    \/ reset_DW_stop \/ reset_DW_start_passive \/ remove_im_files
    \/ gui_sync_read \/ gui_sync_set
    \/ closeEvent

\* main.py is started with directoryWatcher.py as it is, or with line 164
\* moved under the if of line 163
InitSilent ==
    /\ InitDW /\ InitIH /\ InitGUI /\ unit = NoCall
    /\ \E b \in {SelectHandler, SelectHandlerIndented} :
          dwmodule = [Loaded EXCEPT !.block = b, !.imported = "no"]

SpecSilent == InitSilent /\ [][NextSilent]_vars

(***************************************************************************)
(* Methods of the event handler called on their own.                       *)
(***************************************************************************)
\* the answers of a scripted file: 1 to MaxReads sizes
Scripts == UNION {[1..k -> Sizes] : k \in 1..MaxReads}

RECURSIVE poll(_, _, _)
\* wait_for_file from its loop test on, after `reads` calls of
\* os.path.getsize which answers sizes[1], sizes[2], ... in turn: the test
\* reads the size and compares it with last_file_size, the body reads it
\* again into last_file_size.  returned is FALSE when the loop is still
\* running after the last scripted answer.
poll(sizes, last_file_size, reads) ==
    IF reads + 1 > Len(sizes)
    THEN [returned |-> FALSE, reads |-> reads]
    ELSE IF last_file_size = sizes[reads + 1]
    THEN [returned |-> TRUE, reads |-> reads + 1]
    ELSE IF reads + 2 > Len(sizes)
    THEN [returned |-> FALSE, reads |-> reads + 1]
    ELSE poll(sizes, sizes[reads + 2], reads + 2)

RECURSIVE poll_any(_, _, _)
\* a wait that compares every read with the read before it
poll_any(sizes, last_file_size, reads) ==
    IF reads + 1 > Len(sizes)
    THEN [returned |-> FALSE, reads |-> reads]
    ELSE IF last_file_size = sizes[reads + 1]
    THEN [returned |-> TRUE, reads |-> reads + 1]
    ELSE poll_any(sizes, sizes[reads + 1], reads + 1)

wait_for_file_any(sizes) == poll_any(sizes, -1, 0)

\* wait_for_file(file_name): last_file_size = -1, then the loop
wait_for_file(sizes) == poll(sizes, -1, 0)

\* the event handler as it may be when sync_dexter is called, with the sync
\* file holding a number; a file whose sizes are scripted
InitUnit ==
    /\ InitDW /\ InitIH /\ InitGUI /\ dwmodule = Loaded
    /\ \/ \E d \in Dfns \cup {NoDfn}, r \in Dfns :
             unit = [NoCall EXCEPT !.fn = "sync_dexter", !.dfn = d, !.read = r]
       \/ \E s \in Scripts :
             unit = [NoCall EXCEPT !.fn = "wait_for_file", !.sizes = s]

\* sync_dexter()
call_sync_dexter ==
    /\ unit.fn = "sync_dexter" /\ ~unit.called
    /\ unit' = [unit EXCEPT !.called = TRUE, !.returned = TRUE,
                            !.out = sync_value(unit.dfn, unit.read),
                            !.reads = 1]
    /\ UNCHANGED <<dwstate, ihstate, dwmodule>>

\* wait_for_file(file_name)
call_wait_for_file ==
    /\ unit.fn = "wait_for_file" /\ ~unit.called
    /\ unit' = [unit EXCEPT !.called = TRUE,
                            !.returned = wait_for_file(unit.sizes).returned,
                            !.reads = wait_for_file(unit.sizes).reads]
    /\ UNCHANGED <<dwstate, ihstate, dwmodule>>

NextUnit == call_sync_dexter \/ call_wait_for_file

SpecUnit == InitUnit /\ [][NextUnit]_vars

(***************************************************************************)
(* One image_handler and its callers.                                      *)
(***************************************************************************)
\* process(im_name) with the next image file
call_process ==
    /\ fileno < MaxFiles
    /\ fileno' = fileno + 1
    /\ ih' = process(ih, Image(fileno + 1))
    /\ raised' = IF process_raises(ih, Image(fileno + 1))
                 THEN "IndexError" ELSE "none"
    /\ UNCHANGED <<dwvars, nloads, mw, clicks>>

\* reset_arrays()
call_reset_arrays ==
    /\ ih' = reset_arrays(ih)
    /\ raised' = "none"
    /\ UNCHANGED <<dwvars, fileno, nloads, mw, clicks>>

\* load_from_csv(file_name)
call_load_from_csv ==
    /\ nloads < MaxLoads
    /\ nloads' = nloads + 1
    /\ \E rows \in 0..MaxRows, has_max \in BOOLEAN :
          /\ ih' = load_from_csv(ih, CsvFile(rows, has_max))
          /\ raised' = IF load_from_csv_raises(CsvFile(rows, has_max))
                       THEN "IndexError" ELSE "none"
    /\ UNCHANGED <<dwvars, fileno, mw, clicks>>

NextIH == call_process \/ call_reset_arrays \/ call_load_from_csv

SpecIH == Init /\ [][NextIH]_vars

(***************************************************************************)
(* The histogram methods of one image_handler called on their own.         *)
(***************************************************************************)
\* process(im_name) with an image of any of the counts; the images come in
\* the order of CountVals
hist_process ==
    /\ ih.im_num < MaxHistFiles
    /\ \E f \in 1..Len(CountVals) :
          /\ fileno <= f
          /\ fileno' = f
          /\ ih' = process(ih, Image(f))
    /\ raised' = "none"
    /\ unit' = NoCall
    /\ UNCHANGED <<dwstate, dwmodule, nloads, mw, clicks>>

\* the bins the main window may give the handler: none (set_bins, automatic
\* binning), those of bins_text_edit with the edits empty, or with numbers
\* in the edits
BinSettings(h) ==
    {<<>>,
     linspace(S * new_vals(h)[1], S * new_vals(h)[2], new_vals(h)[3])}
    \cup {linspace(S * t[1], S * t[2], t[3]) : t \in BinTexts}

\* bin_array is assigned
hist_set_bins ==
    /\ \E b \in BinSettings(ih) :
          /\ b # ih.bin_array
          /\ ih' = [ih EXCEPT !.bin_array = b]
    /\ unit' = NoCall
    /\ UNCHANGED <<dwstate, dwmodule, fileno, raised, nloads, mw, clicks>>

\* thresh is assigned from the Threshold edit (bins_text_edit line 813)
hist_set_thresh ==
    /\ ih.thresh # S * ThreshText
    /\ ih' = [ih EXCEPT !.thresh = S * ThreshText]
    /\ unit' = NoCall
    /\ UNCHANGED <<dwstate, dwmodule, fileno, raised, nloads, mw, clicks>>

\* histogram()
call_histogram ==
    /\ ih' = histogram(ih)
    /\ raised' = "none"
    /\ unit' = [NoCall EXCEPT !.fn = "histogram", !.called = TRUE,
                              !.returned = TRUE,
                              !.before = ih, !.after = histogram(ih)]
    /\ UNCHANGED <<dwstate, dwmodule, fileno, nloads, mw, clicks>>

\* hist_and_thresh()
call_hist_and_thresh ==
    /\ ih' = hist_and_thresh(ih)
    /\ raised' = "none"
    /\ unit' = [NoCall EXCEPT !.fn = "hist_and_thresh", !.called = TRUE,
                              !.returned = TRUE,
                              !.before = ih, !.after = hist_and_thresh(ih)]
    /\ UNCHANGED <<dwstate, dwmodule, fileno, nloads, mw, clicks>>

\* search_fidelity(peak_counts[0], peak_counts[1]) after histogram() has
\* found two peaks, as hist_and_thresh calls it; tried are the thresholds of
\* line 182
call_search_fidelity ==
    /\ unit.fn = "histogram" /\ unit.after = ih
    /\ Len(ih.peak_indexes) = 2
    /\ ih' = search_fidelity(ih, ih.peak_counts[1], ih.peak_counts[2])
    /\ raised' = "none"
    /\ unit' = [NoCall EXCEPT
                   !.fn = "search_fidelity", !.called = TRUE,
                   !.returned = TRUE, !.before = ih,
                   !.after = search_fidelity(ih, ih.peak_counts[1],
                                             ih.peak_counts[2]),
                   !.tried = linspace(ih.peak_counts[1], ih.peak_counts[2],
                                      10)]
    /\ UNCHANGED <<dwstate, dwmodule, fileno, nloads, mw, clicks>>

NextHist ==
    \/ hist_process
    \/ hist_set_bins
    \/ hist_set_thresh
    \/ call_histogram
    \/ call_hist_and_thresh
    \/ call_search_fidelity

SpecHist == Init /\ [][NextHist]_vars

(***************************************************************************)
(* The histogram methods called on a handler that holds given records.     *)
(***************************************************************************)
\* the ROI (xc, yc, roi_size) and the pic_size a handler has when one of its
\* methods is called on its own: those of __init__, or set by the user
StatRois == {<<0, 0, 1, DefaultPicSize>>, <<2, 1, 2, 3>>}

RECURSIVE processed(_, _, _)
\* the handler after process() of images with the integrated counts c[k],
\* c[k + 1], ...
processed(h, c, k) ==
    IF k > Len(c) THEN h
    ELSE processed(process(h, [file |-> k, counts |-> c[k], stat |-> k]),
                   c, k + 1)

\* a handler with records, the initial threshold or one the user typed
\* (bins_text_edit line 814), automatic bins or the bins the user typed
InitStats ==
    /\ InitDW /\ InitGUI /\ unit = NoCall /\ dwmodule = Loaded
    /\ fileno = 0 /\ raised = "none" /\ nloads = 0
    /\ \E c \in StatCounts, t \in {1} \cup ThreshTexts,
          b \in {<<>>} \cup {linspace(S * x[1], S * x[2], x[3]) :
                                x \in BinTexts},
          roi \in StatRois :
          ih = [processed(image_handler, c, 1) EXCEPT
                   !.thresh = S * t, !.bin_array = b,
                   !.xc = roi[1], !.yc = roi[2], !.roi_size = roi[3],
                   !.pic_size = roi[4]]

\* save_state(save_file_name); out is the file written
call_save_state ==
    /\ ih' = save_state(ih)
    /\ raised' = "none"
    /\ unit' = [NoCall EXCEPT !.fn = "save_state", !.called = TRUE,
                              !.returned = TRUE, !.before = ih,
                              !.out = savetxt(ih)]
    /\ UNCHANGED <<dwstate, dwmodule, fileno, nloads, mw, clicks>>

\* load_from_csv of the file just saved, called on a fresh image_handler,
\* which is after
call_load_saved ==
    /\ unit.fn = "save_state"
    /\ raised' = IF load_from_csv_raises(genfromtxt(unit.out))
                 THEN "IndexError" ELSE "none"
    /\ unit' = [unit EXCEPT
                   !.fn = "load_from_csv",
                   !.after = load_from_csv(image_handler,
                                           genfromtxt(unit.out))]
    /\ UNCHANGED <<ih, dwstate, dwmodule, fileno, nloads, mw, clicks>>

\* reset_arrays(); before and after are the handler before and after it
call_reset_records ==
    /\ ih' = reset_arrays(ih)
    /\ raised' = "none"
    /\ unit' = [NoCall EXCEPT !.fn = "reset_arrays", !.called = TRUE,
                              !.returned = TRUE, !.before = ih,
                              !.after = reset_arrays(ih)]
    /\ UNCHANGED <<dwstate, dwmodule, fileno, nloads, mw, clicks>>

NextStats ==
    \/ call_reset_records
    \/ call_histogram
    \/ call_hist_and_thresh
    \/ call_save_state
    \/ call_load_saved

SpecStats == InitStats /\ [][NextStats]_vars

(***************************************************************************)
(* est_param called on its own, its while loop pass by pass.  unit holds   *)
(* the locals of the call.                                                 *)
(***************************************************************************)
\* the occupancy arrays: empty, constant, with one, two and more peaks
OccArrays == UNION {[1..k -> 0..MaxOcc] : k \in 0..MaxBins}

InitPeaks ==
    /\ InitDW /\ InitGUI /\ dwmodule = Loaded /\ ih = image_handler
    /\ fileno = 0 /\ raised = "none" /\ nloads = 0
    /\ \E h \in OccArrays : unit = est_param_locals(h)

\* est_param, lines 29-32: the loop test holds, find_peaks and d += inc
est_param_loop ==
    /\ ~unit.returned /\ unit.num_peaks > 2
    /\ unit' = est_param_pass(unit,
                               select_by_distance(unit.h,
                                                  local_maxima(unit.h),
                                                  unit.d))
    /\ UNCHANGED <<ih, raised, dwstate, dwmodule, fileno, nloads, mw, clicks>>

\* est_param, line 34: the loop test fails and est_param returns
est_param_return ==
    /\ ~unit.returned /\ ~(unit.num_peaks > 2)
    /\ unit' = [unit EXCEPT !.returned = TRUE]
    /\ UNCHANGED <<ih, raised, dwstate, dwmodule, fileno, nloads, mw, clicks>>

NextPeaks == est_param_loop \/ est_param_return

\* est_param runs on: no pass of its loop waits for anything
SpecPeaks == InitPeaks /\ [][NextPeaks]_vars /\ WF_vars(NextPeaks)

(***************************************************************************)
(* get_fidelity called on its own, on a handler holding a peak model.      *)
(***************************************************************************)
\* the peak models: two peaks in either order or at one position, or one
\* peak only
PeakModels ==
    {[peak_counts |-> <<S * p[1], S * p[2]>>,
      peak_widths |-> <<S * w[1], S * w[2]>>] :
        p \in PeakPositions \X PeakPositions, w \in PeakWidths \X PeakWidths}
    \cup {[peak_counts |-> <<S * p>>, peak_widths |-> <<S * w>>] :
             p \in PeakPositions, w \in PeakWidths}

InitFid ==
    /\ InitDW /\ InitGUI /\ unit = NoCall /\ dwmodule = Loaded
    /\ fileno = 0 /\ raised = "none" /\ nloads = 0
    /\ \E m \in PeakModels :
          ih = [image_handler EXCEPT
                   !.peak_indexes = [k \in DOMAIN m.peak_counts |-> k],
                   !.peak_counts = m.peak_counts,
                   !.peak_widths = m.peak_widths]

\* get_fidelity(thresh); out is what it returns
call_get_fidelity ==
    /\ \E t \in FidThreshes :
          unit' = [NoCall EXCEPT !.fn = "get_fidelity", !.called = TRUE,
                                 !.returned = TRUE, !.tried = <<S * t>>,
                                 !.out = get_fidelity(ih, S * t)]
    /\ UNCHANGED <<ih, raised, dwstate, dwmodule, fileno, nloads, mw, clicks>>

NextFid == call_get_fidelity

SpecFid == InitFid /\ [][NextFid]_vars

(***************************************************************************)
(* One image_handler of imageAnalyser.py and its callers.  unit holds the  *)
(* handler before and after the last call of process.                      *)
(***************************************************************************)
InitIA ==
    /\ InitDW /\ InitGUI /\ unit = NoCall /\ dwmodule = Loaded
    /\ ih = ia_image_handler
    /\ fileno = 0 /\ raised = "none" /\ nloads = 0

\* imageAnalyser: process(im_name) with the next image file
ia_call_process ==
    /\ fileno < MaxFiles
    /\ fileno' = fileno + 1
    /\ ih' = ia_process(ih, Image(fileno + 1))
    /\ raised' = IF ia_process_raises(ih, Image(fileno + 1))
                 THEN "IndexError" ELSE "none"
    /\ unit' = [NoCall EXCEPT
                   !.fn = "process", !.called = TRUE,
                   !.returned = ~ia_process_raises(ih, Image(fileno + 1)),
                   !.before = ih,
                   !.after = ia_process(ih, Image(fileno + 1))]
    /\ UNCHANGED <<dwstate, dwmodule, nloads, mw, clicks>>

\* imageAnalyser: load_from_csv(file_name)
ia_call_load_from_csv ==
    /\ nloads < MaxLoads
    /\ nloads' = nloads + 1
    /\ \E rows \in 0..(MaxRows + 1) :
          /\ ih' = ia_load_from_csv(ih, CsvFile(rows, FALSE))
          /\ raised' = IF ia_load_from_csv_raises(CsvFile(rows, FALSE))
                       THEN "IndexError" ELSE "none"
    /\ unit' = [NoCall EXCEPT !.fn = "load_from_csv", !.called = TRUE]
    /\ UNCHANGED <<dwstate, dwmodule, fileno, mw, clicks>>

NextIA == ia_call_process \/ ia_call_load_from_csv

SpecIA == InitIA /\ [][NextIA]_vars

(***************************************************************************)
(* process of image files that may be missing or not yet written.         *)
(* unit.tried holds the exceptions of the calls so far.                    *)
(***************************************************************************)
\* the records a handler holds at the start: none, a multiple of n - Margin
\* (where process grows the arrays on any IndexError), two less than n
StartRecords == {0, n - Margin, n - 2}

InitRead ==
    /\ InitDW /\ InitGUI /\ unit = NoCall /\ dwmodule = Loaded
    /\ raised = "none" /\ nloads = 0
    /\ \E k \in StartRecords :
          /\ fileno = k
          /\ ih = processed(image_handler,
                            [i \in 1..k |-> CountsOf(i)], 1)

\* process(im_name) of the next image file, in any state at either attempt
call_process_file ==
    /\ Len(unit.tried) < MaxUnread
    /\ fileno' = fileno + 1
    /\ \E s1 \in FileStates, s2 \in FileStates :
          /\ ih' = process_file(ih, Image(fileno + 1), s1, s2)
          /\ raised' = process_file_raises(ih, Image(fileno + 1), s1, s2)
          /\ unit' = [unit EXCEPT
                         !.fn = "process", !.called = TRUE,
                         !.returned = (raised' = "none"),
                         !.before = ih,
                         !.after = ih',
                         !.tried = Append(@, raised')]
    /\ UNCHANGED <<dwstate, dwmodule, nloads, mw, clicks>>

NextRead == call_process_file

SpecRead == InitRead /\ [][NextRead]_vars

(***************************************************************************)
(* The region of interest: the edits, the dragged ROI and process.         *)
(***************************************************************************)
\* the image size is loaded from an image file (load_im_size)
InitROI ==
    /\ InitDW /\ InitGUI /\ unit = NoCall /\ dwmodule = Loaded
    /\ fileno = 0 /\ raised = "none" /\ nloads = 0
    /\ ih = [image_handler EXCEPT !.pic_size = set_pic_size(ImageFile)]

\* the user edits one of the xc, yc and size edits: textEdited ->
\* roi_text_edit
edit_roi ==
    /\ \E xc \in RoiCentres, yc \in RoiCentres, l \in RoiSizes :
          /\ ih' = roi_text_edit(ih, <<xc, yc, l>>)
          /\ unit' = [NoCall EXCEPT !.fn = "roi_text_edit", !.called = TRUE,
                                    !.returned = TRUE]
    /\ raised' = "none"
    /\ UNCHANGED <<dwstate, dwmodule, fileno, nloads, mw, clicks>>

\* the user drags or scales the ROI: sigRegionChangeFinished -> user_roi
drag_roi ==
    /\ \E x0 \in RoiCorners, y0 \in RoiCorners, w \in RoiWidths :
          /\ ih' = user_roi(ih, x0, y0, w, w)
          /\ unit' = [NoCall EXCEPT !.fn = "user_roi", !.called = TRUE,
                                    !.returned = TRUE]
    /\ raised' = "none"
    /\ UNCHANGED <<dwstate, dwmodule, fileno, nloads, mw, clicks>>

\* process(im_name) of the next image file
roi_process ==
    /\ fileno < MaxRoiFiles
    /\ fileno' = fileno + 1
    /\ ih' = process(ih, read_image(ih, ImageFile, fileno + 1))
    /\ raised' = IF process_raises(ih, read_image(ih, ImageFile, fileno + 1))
                 THEN "IndexError" ELSE "none"
    /\ unit' = [NoCall EXCEPT
                   !.fn = "process", !.called = TRUE, !.returned = TRUE,
                   !.before = ih,
                   !.after = process(ih, read_image(ih, ImageFile,
                                                    fileno + 1))]
    /\ UNCHANGED <<dwstate, dwmodule, nloads, mw, clicks>>

NextROI == edit_roi \/ drag_roi \/ roi_process

SpecROI == InitROI /\ [][NextROI]_vars

(***************************************************************************)
(* The main window and what the user does with it.                         *)
(***************************************************************************)
\* the outcome of a handler becomes the state
becomes(g) ==
    /\ mw' = g.mw
    /\ ih' = g.ih
    /\ raised' = g.exc

\* one more action of the user
click ==
    /\ clicks < MaxClicks
    /\ clicks' = clicks + 1

\* the user checks or unchecks 'User Threshold': triggered -> set_thresh
toggle_thresh ==
    /\ click
    /\ becomes(set_thresh(
                   [gui(mw, ih) EXCEPT !.mw.thresh_toggle = ~mw.thresh_toggle],
                   ~mw.thresh_toggle))
    /\ UNCHANGED <<dwvars, fileno, nloads>>

\* the user changes the Threshold edit: textChanged -> bins_text_edit
edit_threshold ==
    /\ click
    /\ \E t \in {NoText, ThreshText} :
          /\ t # mw.threshold_edit
          /\ becomes(bins_text_edit(
                         [gui(mw, ih) EXCEPT !.mw.threshold_edit = t]))
    /\ UNCHANGED <<dwvars, fileno, nloads>>

\* the user picks a bin action of the menu: triggered -> set_bins
select_bin_action ==
    /\ click
    /\ \E a \in BinActions :
          becomes(set_bins([gui(mw, ih) EXCEPT !.mw.bin_action = a]))
    /\ UNCHANGED <<dwvars, fileno, nloads>>

\* the user presses dw_init_button: clicked -> reset_DW
click_dw_init_button ==
    /\ click
    /\ becomes(reset_DW(gui(mw, ih)))
    /\ UNCHANGED <<dwvars, fileno, nloads>>

\* add_var_to_multirun with one number in entry_edit
add_var_to_multirun ==
    /\ click
    /\ ~mw.multirun_switch
    /\ mw.mr.vars < MaxVars
    /\ mw' = [mw EXCEPT !.mr.vars = @ + 1]
    /\ raised' = "none"
    /\ UNCHANGED <<dwvars, ih, fileno, nloads>>

\* the user presses multirun_switch: clicked[bool] -> multirun_go
click_multirun_switch ==
    /\ click
    /\ \E choice \in ResetChoices, omit \in OmitTexts, hist \in HistTexts :
          becomes(multirun_go(
                      [gui(mw, ih) EXCEPT
                          !.mw.multirun_switch = ~mw.multirun_switch],
                      ~mw.multirun_switch, choice, omit, hist))
    /\ UNCHANGED <<dwvars, fileno, nloads>>

\* the user checks or unchecks 'Auto-display last image': clicked ->
\* set_im_show
toggle_im_show ==
    /\ click
    /\ becomes(set_im_show(
                   [gui(mw, ih) EXCEPT !.mw.im_show_toggle = ~mw.im_show_toggle],
                   ~mw.im_show_toggle))
    /\ UNCHANGED <<dwvars, fileno, nloads>>

\* the user presses multirun_pause ('Resume'): clicked -> multirun_resume
click_multirun_pause ==
    /\ click
    /\ becomes(multirun_resume(gui(mw, ih)))
    /\ UNCHANGED <<dwvars, fileno, nloads>>

\* the user presses 'Clear list': clicked -> clear_multirun_vars
click_clear_vars ==
    /\ click
    /\ becomes(clear_multirun_vars(gui(mw, ih)))
    /\ UNCHANGED <<dwvars, fileno, nloads>>

\* load_empty_hist is called
call_load_empty_hist ==
    /\ click
    /\ \E reply \in Replies : becomes(load_empty_hist(gui(mw, ih), reply))
    /\ UNCHANGED <<dwvars, fileno, nloads>>

\* the user picks 'Reset histogram' in the menu: triggered -> check_reset
click_reset_hist ==
    /\ click
    /\ \E choice \in ResetChoices : becomes(check_reset(gui(mw, ih), choice))
    /\ UNCHANGED <<dwvars, fileno, nloads>>

\* the watcher's event_path signal arrives with the path of the next image
event_path_emit ==
    /\ mw.dir_watcher
    /\ fileno < MaxGuiFiles
    /\ fileno' = fileno + 1
    /\ \E fit \in BOOLEAN :
          becomes(deliver(gui(mw, ih), mw.event_path, Image(fileno + 1), fit))
    /\ UNCHANGED <<dwvars, nloads, clicks>>

NextGUI ==
    \/ toggle_thresh
    \/ edit_threshold
    \/ select_bin_action
    \/ click_dw_init_button
    \/ add_var_to_multirun
    \/ click_multirun_switch
    \/ click_reset_hist
    \/ toggle_im_show
    \/ click_multirun_pause
    \/ click_clear_vars
    \/ call_load_empty_hist
    \/ event_path_emit

SpecGUI == Init /\ [][NextGUI]_vars

(***************************************************************************)
(* Claims about the file-arrival protocol.                                 *)
(***************************************************************************)

\* C1: every file-creation event goes through the stages in the fixed order
\* written, synced, copied, copy written, deleted; a path is emitted at most
\* once per event, and only after all five stages (the copy completed and
\* the source deleted).
C1_EventOrder ==
    \A w \in Watchers :
        /\ \E k \in 0..Len(Stages) : steps[w] = SubSeq(Stages, 1, k)
        /\ nemit[w] <= 1
        /\ (pc[w] = "emit" \/ nemit[w] = 1) => steps[w] = Stages

\* an event was handled through to the emission of its path
C1_Witness ==
    \E w \in Watchers :
        nemit[w] = 1 /\ steps[w] = Stages /\ last_event_path[w] # NoDfn

\* C2: whenever a path is emitted, the file at that path holds the complete
\* image, and no copy in the storage directory is a partial image (the
\* source is never copied while it is still being written).
C2_EmittedComplete ==
    /\ \A w \in Watchers : esize[w] \in {Absent, Full}
    /\ \A k \in DOMAIN store : store[k].size \in {Absent, Full}

\* C3: no two events handled by one watcher are given the same destination
\* file name.
C3_NamesDistinct ==
    \A w \in Watchers :
        \A i, j \in 1..Len(names[w]) : i # j => names[w][i] # names[w][j]

\* watcher w does a copy, a delete or an emit in this step
Mutates(w) ==
    \/ pc[w] \in {"copy", "copy_retry"} /\ pc'[w] = "c_cond"
    \/ pc[w] \in {"remove", "remove_retry"} /\ pc'[w] = "emit"
    \/ pc[w] = "emit" /\ pc'[w] = "idle"

\* C7: once observer.stop() has returned for a watcher (reset_DW on a running
\* watcher, or closeEvent), no in-flight event of that watcher copies a file,
\* deletes a file or emits a path.
C7_StopIsSynchronous ==
    [][\A w \in Watchers : obs[w] = "stopped" => ~Mutates(w)]_vars

\* watcher w can still change the storage directory: its observer is
\* running, or it was stopped while an event was in flight
Active(w) ==
    \/ obs[w] = "running"
    \/ obs[w] = "stopped" /\ pc[w] \notin {"idle", "dead"}

\* C8: at no point are two watcher instances active.
C8_SingleWatcher ==
    \A v, w \in Watchers : Active(v) /\ Active(w) => v = w

\* C9: sync_dexter is never executed by two threads at once: the GUI thread
\* (reset_DW's initial call) and the observer thread (on_created) are never
\* both between the read of the sync file and the update of dfn of the same
\* event handler.
C9_SyncSerialized ==
    ~ \E w \in Watchers :
        dir_watcher = w /\ gpc = "sync_set" /\ pc[w] = "sync_set"

\* C10: a failure while handling an event does not stop the watcher: while
\* the observer has not been stopped, its thread is alive to handle the next
\* creation event.
C10_WatcherSurvives ==
    \A w \in Watchers : obs[w] = "running" => pc[w] # "dead"

(***************************************************************************)
(* Claims about the image handler.                                         *)
(***************************************************************************)

\* C5: a call of process with im_num equal to the length of the record
\* arrays grows the arrays by n slots, stores the record of the image at
\* index im_num and raises nothing.
C5_GrowsAtCapacity ==
    [][(fileno' = fileno + 1 /\ ih.im_num = Len(ih.counts))
          => /\ Len(ih'.counts) = Len(ih.counts) + n
             /\ ih'.im_num = ih.im_num + 1
             /\ ih'.files[ih'.im_num] = fileno'
             /\ raised' = "none"]_vars

\* C6: the per-record arrays all have the same length, that length is at
\* least im_num, and below im_num every array holds at an index the field of
\* the one record whose file number is in files at that index: its counts,
\* its pixel statistics (max_count is 0 for a record loaded from a csv file
\* without that column), and for atom its classification or the 0 of a record
\* not classified yet.
C6_ParallelArrays ==
    /\ \A f \in RecordArrays : Len(ih[f]) = Len(ih.files)
    /\ Len(ih.files) >= ih.im_num
    /\ \A i \in 1..ih.im_num :
          LET im == Image(ih.files[i]) IN
          /\ ih.files[i] # None
          /\ ih.counts[i] = im.counts
          /\ \A f \in {"mean_count", "std_count", "xc_list", "yc_list"} :
                ih[f][i] = im.stat
          /\ ih.max_count[i] \in {0, im.stat}
          /\ ih.atom[i] \in {0, im.counts}

\* images were processed, a csv file was loaded behind them, and more than n
\* images were processed behind its rows: the arrays have been grown
C6_Witness ==
    \E i \in 2..ih.im_num :
        /\ ih.files[i] > MaxFiles /\ ih.files[1] <= MaxFiles
        /\ ih.im_num - i > n
        /\ ih.files[ih.im_num] = fileno

(***************************************************************************)
(* Claims about the main window.                                           *)
(***************************************************************************)
\* the user threshold is in force: 'User Threshold' is checked and the image
\* handler's threshold is the number in the Threshold edit
Pinned(m, h) ==
    /\ m.thresh_toggle
    /\ m.threshold_edit # NoText
    /\ h.thresh = S * m.threshold_edit

\* C4: once the user threshold is pinned (User Threshold checked and the
\* threshold set), no image arrival and no histogram refresh, starting the
\* directory watcher, changing the bin mode and a multirun included, changes
\* image_handler.thresh while User Threshold stays checked; the threshold
\* moves only to what the user types.
C4_PinnedThreshold ==
    [][(Pinned(mw, ih) /\ mw'.thresh_toggle)
          => \/ ih'.thresh = ih.thresh
             \/ Pinned(mw', ih')]_vars

(***************************************************************************)
(* Claims about the polling loops and the steps of an event.               *)
(***************************************************************************)
\* the observer thread of w is in one of the polling loops of on_created:
\* wait_for_file on the source, sync_dexter, wait_for_file on the copy
Polling(w) == pc[w] \in {"w_cond", "w_body", "sync_read", "c_cond", "c_body"}

C12_RetryOnce ==
    [][\A w \in Watchers :
          /\ ev'[w].copies <= 2 /\ ev'[w].removes <= 2
          /\ (ev'[w].copies = 2 /\ ev[w].copies # 2) => pc[w] = "copy_retry"
          /\ (ev'[w].removes = 2 /\ ev[w].removes # 2)
                => pc[w] = "remove_retry"
          /\ (pc'[w] = "copy_retry" /\ pc[w] # "copy_retry")
                => (pc[w] = "copy" /\ wopen /\ fsrc # Absent)
          /\ (pc'[w] = "remove_retry" /\ pc[w] # "remove_retry")
                => (pc[w] = "remove" /\ wopen /\ fsrc # Absent)
          /\ (pc[w] = "copy_retry" /\ pc'[w] # pc[w])
                => pc'[w] \in {"c_cond", "dead"}
          /\ (pc[w] = "remove_retry" /\ pc'[w] # pc[w])
                => pc'[w] \in {"emit", "dead"}
          /\ pc'[w] = "dead" => nemit'[w] = 0]_vars

\* the retry of the delete has failed: the event ended without a path
C12_Witness ==
    \E w \in Watchers :
        pc[w] = "dead" /\ ev[w].removes = 2 /\ ev[w].copies = 2

\* C15: while the counter file reads as empty, sync_dexter leaves dfn as it
\* is and reads the file again; dfn is only ever set from a non-empty read,
\* and the destination file name is never composed with an empty file
\* number.
C15_EmptyCounter ==
    [][\A w \in Watchers :
          /\ ev'[w].empties > ev[w].empties
                => (dfn' = dfn /\ pc'[w] = "sync_read")
          /\ dfn'[w] # dfn[w]
                => /\ dfn'[w] # NoDfn
                   /\ \E read \in {rd[w], grd} :
                         read # Empty /\ dfn'[w] \in {read, read + 1}
          /\ names'[w] # names[w]
                => names'[w][Len(names'[w])] # NoDfn]_vars

\* the counter file was read as empty during an event, and the event went on
\* to compose its destination file name
C15_Witness ==
    \E w \in Watchers :
        ev[w].empties > 0 /\ pc[w] = "c_cond" /\ names[w] # <<>>

(***************************************************************************)
(* Claims about sync_dexter and wait_for_file called on their own.         *)
(***************************************************************************)

\* C13: sync_dexter sets dfn to the number read plus one if the number read
\* equals the dfn it had, and to the number read otherwise; with dfn 42 and
\* the file reading 42, dfn becomes 43.
C13_SyncValue ==
    (unit.fn = "sync_dexter" /\ unit.called) =>
        /\ unit.read = unit.dfn => unit.out = unit.read + 1
        /\ unit.read # unit.dfn => unit.out = unit.read
        /\ (unit.dfn = 42 /\ unit.read = 42) => unit.out = 43

\* sync_dexter was called with dfn 42 and the sync file reading 42
C13_Witness ==
    /\ unit.fn = "sync_dexter" /\ unit.called
    /\ unit.dfn = 42 /\ unit.read = 42 /\ unit.out = 43

\* the first read, if any, that returns what the read before it returned
FirstRepeat(sizes) ==
    LET ks == {k \in 2..Len(sizes) : sizes[k] = sizes[k - 1]}
    IN  IF ks = {} THEN 0 ELSE CHOOSE k \in ks : \A j \in ks : k <= j

\* the first read made by the loop test, if any, that returns what the loop
\* body read before it
FirstStable(sizes) ==
    LET ks == {k \in 3..Len(sizes) : k % 2 = 1 /\ sizes[k] = sizes[k - 1]}
    IN  IF ks = {} THEN 0 ELSE CHOOSE k \in ks : \A j \in ks : k <= j

\* C14 as stated: the wait ends as soon as two consecutive reads return the
\* same size: a file answering 100, 100 is passed after those two reads, and
\* one answering 100, 150, 150 after exactly three.
C14_TwoEqualReads ==
    (unit.fn = "wait_for_file" /\ unit.called) =>
        /\ FirstRepeat(unit.sizes) # 0 =>
              unit.returned /\ unit.reads = FirstRepeat(unit.sizes)
        /\ unit.sizes = <<100, 100>> => unit.returned /\ unit.reads = 2
        /\ unit.sizes = <<100, 150, 150>> => unit.returned /\ unit.reads = 3

\* C14: the wait ends at the first loop test whose read returns what the
\* loop body read just before it, so never before the third read: a file
\* answering 100, 100 needs a third read, one answering 100, 100, 100 or
\* 100, 150, 150 is passed after exactly three.
C14_WaitForFile ==
    (unit.fn = "wait_for_file" /\ unit.called) =>
        /\ unit.returned <=> FirstStable(unit.sizes) # 0
        /\ unit.returned => unit.reads = FirstStable(unit.sizes)
        /\ unit.sizes = <<100, 100>> => ~unit.returned /\ unit.reads = 2
        /\ unit.sizes = <<100, 100, 100>> => unit.returned /\ unit.reads = 3
        /\ unit.sizes = <<100, 150, 150>> => unit.returned /\ unit.reads = 3

\* wait_for_file was called on the file answering 100, 150, 150
C14_Witness ==
    /\ unit.fn = "wait_for_file" /\ unit.called
    /\ unit.sizes = <<100, 150, 150>> /\ unit.returned /\ unit.reads = 3

(***************************************************************************)
(* Claims about the watcher in passive mode.                               *)
(***************************************************************************)

\* the steps of an event handled by a silent handler
SilentEventStep(w) ==
    dwmodule.handler[w] = "silent" /\ pc'[w] # pc[w]

\* C16: a watcher created with active=False gets the silent handler, which
\* handles an event by waiting until the source has been written and then
\* emitting the source path; it never reads the counter file, never copies
\* and never deletes: the image read directory, the storage directory and
\* dfn are left as they are by every step of an event.
C16_SilentWatcher ==
    [][/\ dwmodule'.imported # "IndentationError"
       /\ \A w \in Watchers :
             /\ (dwmodule'.handler[w] # dwmodule.handler[w] /\ ~dwmodule.dw_mode)
                   => dwmodule'.handler[w] = "silent"
             /\ SilentEventStep(w) =>
                   /\ pc'[w] \in {"idle", "w_cond", "w_body", "silent_emit", "dead"}
                   /\ UNCHANGED <<fsrc, store, dfn, rd, ctr>>
                   /\ nemit'[w] # nemit[w] =>
                         \/ nemit'[w] = 0
                         \/ /\ steps[w] = <<"written">>
                            /\ last_event_path'[w] = SrcPath]_vars

(***************************************************************************)
(* Claims about the stored records and the threshold.                      *)
(***************************************************************************)

\* the user asks for a reset: 'reset' chosen in the dialog of check_reset,
\* opened by 'Reset histogram' or when a multirun is started, or 'No' (reset
\* without saving) answered to load_empty_hist
ResetRequest ==
    /\ clicks' = clicks + 1
    /\ \/ \E omit \in OmitTexts, hist \in HistTexts :
             becomes(multirun_go(
                         [gui(mw, ih) EXCEPT
                             !.mw.multirun_switch = ~mw.multirun_switch],
                         ~mw.multirun_switch, "reset", omit, hist))
       \/ becomes(check_reset(gui(mw, ih), "reset"))
       \/ becomes(load_empty_hist(gui(mw, ih), "No"))

Fid(h, t) == get_fidelity(h, t)[1]

\* t is the first of the thresholds tried that has the largest fidelity
FirstMax(h, tried, t) ==
    \E k \in DOMAIN tried :
        /\ tried[k] = t
        /\ \A j \in DOMAIN tried : Fid(h, tried[j]) <= Fid(h, t)
        /\ \A j \in 1..(k - 1) : Fid(h, tried[j]) < Fid(h, t)

\* the thresholds tried are equally spaced, to the unit of the model
EquallySpaced(tried) ==
    \A k \in 1..(Len(tried) - 1) :
        Abs((tried[k + 1] - tried[k]) - (tried[2] - tried[1])) <= 1

\* C18: when the peak search finds fewer than two peaks, hist_and_thresh
\* leaves thresh as it was and returns the histogram without raising: it
\* does what histogram() does, whatever the records (none included) and the
\* bins.
C18_FewerThanTwoPeaks ==
    (unit.fn = "hist_and_thresh" /\ Len(unit.after.peak_indexes) < 2) =>
        /\ unit.returned /\ raised = "none"
        /\ unit.after.thresh = unit.before.thresh
        /\ unit.after = histogram(unit.before)

\* hist_and_thresh has found one peak in a histogram of stored records with
\* bins set, the threshold being the user's
C18_Witness ==
    /\ unit.fn = "hist_and_thresh" /\ Len(unit.after.peak_indexes) = 1
    /\ unit.before.im_num > 0 /\ unit.before.bin_array # <<>>
    /\ unit.before.thresh = S * ThreshText
    /\ unit.after.thresh = S * ThreshText

\* C19: when the peak search finds exactly two peaks, the threshold
\* hist_and_thresh leaves is the one of largest fidelity among the
\* thresholds tried between the two peaks; it lies between the position of
\* the background peak and the position of the signal peak.
C19_TwoPeaks ==
    (unit.fn = "hist_and_thresh" /\ Len(unit.after.peak_indexes) = 2) =>
        /\ unit.after.peak_counts[1] <= unit.after.thresh
        /\ unit.after.thresh <= unit.after.peak_counts[2]
        /\ FirstMax(unit.after,
                    linspace(unit.after.peak_counts[1],
                             unit.after.peak_counts[2], 10),
                    unit.after.thresh)
        /\ unit.after.fidelity = Fid(unit.after, unit.after.thresh)

\* hist_and_thresh has found two peaks and moved the threshold from the
\* user's value to a value between them
C19_Witness ==
    /\ unit.fn = "hist_and_thresh" /\ Len(unit.after.peak_indexes) = 2
    /\ unit.before.thresh = S * ThreshText
    /\ unit.after.thresh # unit.before.thresh
    /\ unit.after.peak_counts[1] < unit.after.thresh
    /\ unit.after.thresh < unit.after.peak_counts[2]

\* C20 as stated: search_fidelity tries n equally spaced thresholds strictly
\* between the two peak positions and sets thresh to the first of them that
\* has the largest fidelity.
C20_StrictlyBetween ==
    unit.fn = "search_fidelity" =>
        /\ Len(unit.tried) = 10
        /\ \A k \in DOMAIN unit.tried :
              /\ unit.before.peak_counts[1] < unit.tried[k]
              /\ unit.tried[k] < unit.before.peak_counts[2]
        /\ EquallySpaced(unit.tried)
        /\ FirstMax(unit.before, unit.tried, unit.after.thresh)

\* C20: search_fidelity tries n equally spaced thresholds from the first
\* peak position to the second, both positions included (n is 10 unless
\* given), and sets thresh to the first of them that has the largest
\* fidelity.
C20_SearchFidelity ==
    unit.fn = "search_fidelity" =>
        /\ Len(unit.tried) = 10
        /\ unit.tried[1] = unit.before.peak_counts[1]
        /\ unit.tried[10] = unit.before.peak_counts[2]
        /\ \A k \in 2..9 :
              /\ unit.before.peak_counts[1] < unit.tried[k]
              /\ unit.tried[k] < unit.before.peak_counts[2]
        /\ EquallySpaced(unit.tried)
        /\ FirstMax(unit.before, unit.tried, unit.after.thresh)
        /\ unit.after.fidelity = Fid(unit.before, unit.after.thresh)

\* search_fidelity was called and two of the thresholds tried have the
\* largest fidelity
C20_Witness ==
    /\ unit.fn = "search_fidelity"
    /\ \E j, k \in DOMAIN unit.tried :
          /\ j < k
          /\ unit.after.thresh = unit.tried[j]
          /\ Fid(unit.before, unit.tried[k]) = Fid(unit.before, unit.tried[j])

(***************************************************************************)
(* Claims about the classification, the region of interest and the         *)
(* histogram.                                                              *)
(***************************************************************************)

\* C21: for every stored record and every threshold the program can hold, the
\* record is classified as atom-present exactly when its signal is at or
\* above the threshold: after histogram() or hist_and_thresh() has stored
\* atom = counts // thresh, atom is positive if and only if counts >= thresh.
C21_AtomIffAboveThresh ==
    (unit.fn \in {"histogram", "hist_and_thresh"} /\ unit.after = ih)
        => \A i \in 1..ih.im_num :
               (ih.atom[i] > 0) <=> (S * ih.counts[i] >= ih.thresh)

\* the interval an ROI of handler h covers around centre c:
\* [c - size//2, c + size//2) for an even and [c - size//2, c + size//2] for
\* an odd size
RoiInterval(h, c) ==
    (c - h.roi_size \div 2)..(c + h.roi_size \div 2 + (h.roi_size % 2) - 1)

\* the ROI rectangle of h has a size of 1 or more and lies in [0, pic_size)
\* in both axes
RoiInside(h) ==
    /\ h.roi_size >= 1
    /\ RoiInterval(h, h.xc) \subseteq 0..(h.pic_size - 1)
    /\ RoiInterval(h, h.yc) \subseteq 0..(h.pic_size - 1)

\* C22: processing an image never raises when the ROI rectangle lies fully
\* inside [0, pic_size) in both axes, and fails with an invalid-ROI error,
\* without appending a record, when a corner of the ROI lies outside the
\* image.
C22_InvalidRoiFails ==
    unit.fn = "process" =>
        IF RoiInside(unit.before)
        THEN raised = "none" /\ ih.im_num = unit.before.im_num + 1
        ELSE raised = "InvalidROI" /\ ih.im_num = unit.before.im_num

\* C23: after any ROI edit (roi_text_edit or user_roi, each followed by
\* set_roi) the stored ROI has a size of 1 or more and its rectangle, as
\* add_count slices it for odd and for even sizes, lies within [0, pic_size)
\* in both axes.
C23_RoiInBounds ==
    unit.fn \in {"roi_text_edit", "user_roi"} => RoiInside(ih)

\* the pixels of the grid full_im in the ROI of h, center_x selecting the
\* columns and center_y the rows
RoiPixels(h, full_im) ==
    {p \in (0..(Len(full_im) - 1)) \X (0..(Len(full_im[1]) - 1)) :
        p[1] \in RoiInterval(h, h.yc) /\ p[2] \in RoiInterval(h, h.xc)}

\* C24: the signal of an image is the sum of the ROI pixels of the grid
\* without its index column, center_x selecting columns and center_y rows,
\* an even size covering [center - size//2, center + size//2) and an odd size
\* [center - size//2, center + size//2]; for the file of 4 rows '0 1 2 3',
\* '0 4 9 2', '0 1 1 1', '0 0 0 5' and the ROI (center_x = 2, center_y = 1,
\* size = 2) the stored signal is 16.
C24_SignalIsRoiSum ==
    unit.fn = "process" =>
        /\ ih.counts[unit.before.im_num + 1]
              = np_sum(load_full_im(unit.before, ImageFile),
                       RoiPixels(unit.before,
                                 load_full_im(unit.before, ImageFile)))
        /\ (unit.before.xc = 2 /\ unit.before.yc = 1
                /\ unit.before.roi_size = 2)
              => ih.counts[unit.before.im_num + 1] = 16

\* the signals of scenario A
ScenarioA == <<10, 12, 11, 98, 101, 99, 13>>

\* C25: after the signals 10, 12, 11, 98, 101, 99, 13 are appended, with the
\* automatic 10-bin histogram, the peak search returns two peaks, in the
\* bins covering 10..13 and 98..101, and hist_and_thresh sets a threshold
\* strictly between 13 and 98.
C25_ScenarioAThreshold ==
    (/\ unit.fn = "hist_and_thresh"
     /\ signals(unit.before) = ScenarioA
     /\ unit.before.bin_array = <<>>)
        => /\ Len(ih.peak_indexes) = 2
           /\ ih.peak_counts[1] < S * 14
           /\ ih.peak_counts[2] > S * 97
           /\ S * 13 < ih.thresh /\ ih.thresh < S * 98

\* C26: saving the records with save_state and loading the saved file with
\* load_from_csv into a fresh image_handler restores the same number of
\* records with the same signals in the same order, for a record set of any
\* size, so that the occupancy of the fixed-bin histogram is the same before
\* the export and after the reload.
C26_SaveLoadRoundTrip ==
    unit.fn = "load_from_csv" =>
        /\ raised = "none"
        /\ unit.after.im_num = ih.im_num
        /\ signals(unit.after) = signals(ih)
        /\ \A x \in BinTexts :
              occupancy(signals(unit.after), linspace(S * x[1], S * x[2], x[3]))
                = occupancy(signals(ih), linspace(S * x[1], S * x[2], x[3]))

\* C27: histogram() called twice in automatic bin mode, with no process,
\* load or reset in between, returns the same bin edges and the same
\* occupancy both times, and the second call leaves the handler as the first
\* left it.
C27_HistogramTwice ==
    [][(/\ unit.fn = "histogram" /\ unit.after = ih
        /\ ih.bin_array = <<>>
        /\ unit'.fn = "histogram")
          => /\ ih' = ih
             /\ np_histogram(unit'.before) = np_histogram(unit.before)]_vars

\* histogram() has been called twice in a row on records in which it finds
\* two peaks
C27_Witness ==
    /\ unit.fn = "histogram" /\ unit.before = ih /\ unit.after = ih
    /\ ih.bin_array = <<>> /\ ih.im_num >= 2
    /\ Len(ih.peak_indexes) = 2

\* C28: est_param terminates for every occupancy array (empty, constant and
\* many-peaked ones included) and returns at most two peaks; the number of
\* passes of its loop, each of which increases the separation, is bounded
\* (by half the length of the array, and one pass).
C28_EstParamTerminates ==
    /\ <>unit.returned
    /\ [](unit.returned => Cardinality(unit.peak_inds) <= 2)
    /\ [](unit.iterations <= Len(unit.h) \div 2 + 1)

\* est_param has returned from an array of three peaks after more than two
\* passes, with the peaks the recursive reading of the loop gives
C28_Witness ==
    /\ unit.fn = "est_param" /\ unit.returned
    /\ Cardinality(local_maxima(unit.h)) > 2
    /\ unit.iterations > 2
    /\ unit.peak_inds = est_peaks(unit.h, 1)

\* C29: histogram() rebins the stored signals and refreshes the peak
\* estimates, but leaves thresh, im_num and the stored signals as they were,
\* for any stored records and in either bin mode.
C29_HistogramKeepsThresh ==
    (unit.fn = "histogram" /\ unit.after = ih) =>
        /\ ih.thresh = unit.before.thresh
        /\ ih.im_num = unit.before.im_num
        /\ ih.counts = unit.before.counts
        /\ ih.peak_indexes
              = est_param(np_histogram(unit.before).occ).peak_inds

\* histogram() has found two peaks in the manual bins of records that had
\* other peak estimates, the threshold being the one the user typed
C29_Witness ==
    /\ unit.fn = "histogram" /\ unit.after = ih
    /\ Len(ih.bin_array) > 0 /\ ih.im_num >= 2
    /\ Len(ih.peak_indexes) = 2
    /\ ih.peak_indexes # unit.before.peak_indexes
    /\ ih.thresh = S * ThreshText

\* C30: for a non-degenerate two-peak model (the background position below
\* the signal position, both widths positive) and a threshold between the
\* two peak positions, the fidelity get_fidelity returns is at least 0 and
\* at most 1.
C30_FidelityBounds ==
    (/\ unit.fn = "get_fidelity"
     /\ Len(ih.peak_indexes) = 2
     /\ ih.peak_counts[1] < ih.peak_counts[2]
     /\ ih.peak_widths[1] > 0 /\ ih.peak_widths[2] > 0
     /\ ih.peak_counts[1] <= unit.tried[1]
     /\ unit.tried[1] <= ih.peak_counts[2])
        => (0 <= unit.out[1] /\ unit.out[1] <= FidelityUnit)

\* get_fidelity has returned a fidelity strictly between 0 and 1 for a
\* threshold strictly between two peaks of different widths
C30_Witness ==
    /\ unit.fn = "get_fidelity"
    /\ Len(ih.peak_indexes) = 2
    /\ ih.peak_counts[1] < unit.tried[1]
    /\ unit.tried[1] < ih.peak_counts[2]
    /\ ih.peak_widths[1] # ih.peak_widths[2]
    /\ 0 < unit.out[1] /\ unit.out[1] < FidelityUnit

(***************************************************************************)
(* Claims about the record arrays, the signal wiring and the multirun.     *)
(***************************************************************************)
\* C31: when process() grows the record arrays, every record at an index
\* below im_num keeps its value in every field array, and the new record is
\* written at index im_num in every field array (imageAnalyser.py).
C31_GrowthKeepsRecords ==
    (/\ unit.fn = "process" /\ unit.after = ih
     /\ Len(ih.counts) > Len(unit.before.counts))
        => /\ ih.im_num = unit.before.im_num + 1
           /\ \A f \in ia_RecordArrays :
                 \A i \in 1..unit.before.im_num : ih[f][i] = unit.before[f][i]
           /\ \A f \in ia_RecordArrays \ {"atom"} :
                 ih[f][ih.im_num] = field_value(Image(fileno), f)

\* C32: reset_arrays sets im_num to 0 and clears every record array, and
\* leaves thresh, the ROI (xc, yc, roi_size), pic_size and bin_array
\* unchanged.
C32_ResetArraysFrame ==
    (unit.fn = "reset_arrays" /\ unit.after = ih) =>
        /\ ih.im_num = 0
        /\ \A f \in RecordArrays :
              \A i \in DOMAIN ih[f] : ih[f][i] = IF f = "files" THEN None ELSE 0
        /\ \A f \in {"thresh", "xc", "yc", "roi_size", "pic_size",
                      "bin_array"} : ih[f] = unit.before[f]

\* reset_arrays has cleared a handler that held records, a typed threshold,
\* manual bins and a ROI set by the user
C32_Witness ==
    /\ unit.fn = "reset_arrays" /\ unit.after = ih
    /\ unit.before.im_num > 1
    /\ \E i \in 1..unit.before.im_num : unit.before.max_count[i] # 0
    /\ unit.before.thresh = S * ThreshText
    /\ Len(unit.before.bin_array) > 0
    /\ unit.before.roi_size = 2

\* C33: if process() fails for an image (the file is unreadable or not yet
\* written, or add_count raises on both attempts), im_num and the records at
\* the indices below im_num are unchanged, and a later successful process()
\* stores its record at index im_num.
C33_FailedProcessKeepsRecords ==
    (unit.fn = "process" /\ unit.after = ih) =>
        /\ \A f \in RecordArrays :
              \A i \in 1..unit.before.im_num : ih[f][i] = unit.before[f][i]
        /\ raised # "none" => ih.im_num = unit.before.im_num
        /\ raised = "none" =>
              /\ ih.im_num = unit.before.im_num + 1
              /\ \A j \in DOMAIN AddOrder :
                    ih[AddOrder[j]][ih.im_num]
                      = field_value(Image(fileno), AddOrder[j])

\* process has stored a record after two calls that failed, one with
\* OSError and one with IndexError on both attempts
C33_Witness ==
    /\ unit.fn = "process" /\ unit.after = ih /\ raised = "none"
    /\ \E i \in DOMAIN unit.tried : unit.tried[i] = "OSError"
    /\ \E i \in DOMAIN unit.tried : unit.tried[i] = "IndexError"
    /\ ih.files[ih.im_num] = fileno /\ ih.im_num < fileno

\* the slots of the event_path signal that call image_handler.process
Processing == {"update_plot", "update_plot_only", "multirun_step", "process"}

\* C34: however the user has rewired the event_path signal (set_thresh,
\* set_bins and swap_signals, set_im_show, multirun_go, multirun_resume,
\* reset_DW), one emitted path appends at most one record to the image
\* handler, and at most one of the connected slots processes images.
C34_OneRecordPerPath ==
    [][/\ fileno' # fileno => ih'.im_num <= ih.im_num + 1
       /\ Cardinality({i \in DOMAIN mw'.event_path :
                           mw'.event_path[i] \in Processing}) <= 1]_vars

\* the watcher was started, 'No Display' chosen and the image display
\* switched on, three slots are connected, and each of two paths emitted
\* has made one record
C34_Witness ==
    /\ mw.event_path = <<"setText", "process", "update_im">>
    /\ clicks = 3 /\ fileno = 2
    /\ ih.im_num = 2 /\ ih.files[1] = 1 /\ ih.files[2] = 2

\* a multirun is running: the switch is checked, multirun_step is the
\* consumer of the emitted paths and a user variable is still to be done
MultirunRunning ==
    /\ mw.multirun_switch
    /\ \E i \in DOMAIN mw.event_path : mw.event_path[i] = "multirun_step"
    /\ mw.mr.v < mw.mr.vars

\* C35: during a multirun the paths omitted for a user variable come first
\* and add nothing, then each of the '# hist' paths adds one record, and
\* the histogram is saved and the arrays are reset when the last is in: the
\* records held are those of the current variable's histogram, im_num = h,
\* none before the omitted paths are through, never more than '# hist'.
C35_MultirunHistogram ==
    MultirunRunning =>
        /\ ih.im_num = mw.mr.h
        /\ mw.mr.h <= mw.mr.hist
        /\ mw.mr.h > 0 => mw.mr.o = mw.mr.omit

\* the slots set_bins connects for the bin action and the threshold toggle
\* of window m
NormalSlots(m) ==
    IF m.bin_action \in {"Manual", "Automatic"}
    THEN <<IF m.thresh_toggle THEN "update_plot_only" ELSE "update_plot">>
    ELSE IF m.bin_action = "No Display" THEN <<"setText", "process">>
    ELSE <<"setText">>

\* the path about to be emitted is the last of the multirun, number
\* ('# omit' + '# hist') x (number of user variables)
LastPath ==
    /\ mw.mr.v + 1 = mw.mr.vars
    /\ mw.mr.omit + mw.mr.hist > 0
    /\ (mw.mr.o + mw.mr.h) + 1 = mw.mr.omit + mw.mr.hist
    /\ mw.mr.h > 0 => mw.mr.o = mw.mr.omit

\* C36: the emitted path that completes the last histogram of a running
\* multirun ends the multirun: the counters o, h and v are 0 again, the
\* multirun switch is unchecked and the slots that the bin action and the
\* threshold toggle select are connected in place of multirun_step.
C36_MultirunEnds ==
    [][(MultirunRunning /\ LastPath /\ fileno' # fileno)
          => /\ ~mw'.multirun_switch
             /\ mw'.mr.o = 0 /\ mw'.mr.h = 0 /\ mw'.mr.v = 0
             /\ mw'.event_path = NormalSlots(mw')]_vars

\* C37: while a multirun is running, an action of the user that leaves the
\* multirun switch checked and the watcher running leaves multirun_step
\* connected to the watcher's signal: only aborting the multirun hands the
\* emitted paths to another consumer.
C37_MultirunKeepsConsumer ==
    [][(MultirunRunning /\ clicks' # clicks
           /\ mw'.multirun_switch /\ mw'.dir_watcher)
          => \E i \in DOMAIN mw'.event_path :
                 mw'.event_path[i] = "multirun_step"]_vars

\* save_hist_data, called on window g, writes the file and returns 1
SaveSucceeds(g) ==
    save_hist_data(g).exc = "none" /\ save_hist_data(g).saved

\* the step saves the records before it resets them: 'Save first, reset'
\* chosen in the dialog of check_reset, Yes answered to load_empty_hist, or
\* multirun_step with the path that completes a histogram
SaveFirst ==
    \/ /\ clicks' # clicks
       /\ \/ becomes(check_reset(gui(mw, ih), "Save first, reset"))
          \/ becomes(load_empty_hist(gui(mw, ih), "Yes"))
    \/ /\ fileno' # fileno
       /\ mw.event_path = <<"multirun_step">>
       /\ mw.mr.v < mw.mr.vars
       /\ mw.mr.o = mw.mr.omit /\ mw.mr.h + 1 = mw.mr.hist

C39_EveryRecordCounted ==
    (unit.fn \in {"histogram", "hist_and_thresh"} /\ unit.after = ih)
        => atom_count(ih) + empty_count(ih) = ih.im_num

\* handler h1 is h after the rows of file csv were loaded behind its
\* records: the records of h are where they were, the rows follow them in
\* the order of the file (max_count is 0 for rows of a file without that
\* column), im_num has grown by the number of rows, and n or more slots of
\* every array are free
Loaded_behind(h, h1, csv) ==
    /\ h1.im_num = h.im_num + Len(csv.rows)
    /\ \A f \in RecordArrays :
          /\ Len(h1[f]) >= h1.im_num + n
          /\ \A i \in 1..h.im_num : h1[f][i] = h[f][i]
          /\ \A j \in 1..Len(csv.rows) :
                h1[f][h.im_num + j] =
                    IF f = "max_count" /\ ~csv.has_max THEN 0
                    ELSE csv.rows[j][f]

\* C40: load_from_csv on a handler that holds im_num records keeps them at
\* their indices, appends the rows of the file behind them in file order,
\* adds the number of rows to im_num and leaves n or more free slots in
\* every record array, whatever the number of rows of the file.
C40_LoadAppends ==
    [][nloads' # nloads =>
          /\ raised' = "none"
          /\ \E rows \in 0..MaxRows, has_max \in BOOLEAN :
                Loaded_behind(ih, ih', CsvFile(rows, has_max))]_vars

====
